---- MODULE Spec2Model ----
(***************************************************************************)
(* Model of the scholar-navigator proxy server.                           *)
(*                                                                         *)
(*   - the URL codec of src/src/utils/urlEncoder.js (encodeUrl, decodeUrl, *)
(*     isValidUrl), computed on strings held as sequences of code points;  *)
(*   - the error classes and the error middleware of                       *)
(*     src/src/middleware/errorHandler.js;                                 *)
(*   - the request handlers of src/src/handlers/proxyHandler.js            *)
(*     (handleProxyRequest, handleResourceRequest), one request per slot,  *)
(*     interleaved at their awaits as Node's event loop interleaves them.  *)
(*                                                                         *)
(* A string is a sequence of code points (an astral code point stands for  *)
(* its surrogate pair, a value in 55296..57343 for a lone surrogate).      *)
(***************************************************************************)
EXTENDS Integers, Sequences, FiniteSets, TLC

VARIABLES
    codec,      \* the codec harness: an input URL and what the codec made of it
    reqs,       \* server: the state of the request handled in each slot
    outbound,   \* server: every outbound fetch issued so far, [slot, url, method, headers]
    page,       \* the Rewrite Engine applied to one document, and the page it made
    client      \* browser: the component that runs (service worker, init timeout,
                \* tab list, Wisp health check or Wisp retry) and its state

vars == <<codec, reqs, outbound, page, client>>

-----------------------------------------------------------------------------
(* Strings *)

RECURSIVE replaceAll(_, _, _)
\* String.prototype.replace(/c/g, d) for single characters c, d.
replaceAll(s, c, d) ==
    IF s = <<>> THEN <<>>
    ELSE <<IF Head(s) = c THEN d ELSE Head(s)>> \o replaceAll(Tail(s), c, d)

\* String.prototype.startsWith
startsWith(s, p) ==
    /\ Len(s) >= Len(p)
    /\ SubSeq(s, 1, Len(p)) = p

\* String.prototype.toLowerCase on the ASCII letters.
lowerChar(c) == IF c >= 65 /\ c <= 90 THEN c + 32 ELSE c

toLowerCase(s) == [i \in 1..Len(s) |-> lowerChar(s[i])]

\* The index of the first element of s that is in set cs, 0 when there is none.
indexOfAny(s, cs) ==
    IF \E i \in 1..Len(s) : s[i] \in cs
    THEN CHOOSE i \in 1..Len(s) : s[i] \in cs /\ \A j \in 1..(i - 1) : s[j] \notin cs
    ELSE 0

\* The index of the first element of s that is not in set cs, 0 when there is
\* none.
indexOfNone(s, cs) ==
    IF \E i \in 1..Len(s) : s[i] \notin cs
    THEN CHOOSE i \in 1..Len(s) : s[i] \notin cs /\ \A j \in 1..(i - 1) : s[j] \in cs
    ELSE 0

\* The index of the last element of s that equals c, 0 when there is none.
lastIndexOf(s, c) ==
    IF \E i \in 1..Len(s) : s[i] = c
    THEN CHOOSE i \in 1..Len(s) : s[i] = c /\ \A j \in (i + 1)..Len(s) : s[j] # c
    ELSE 0

\* No lone surrogate: the string is a sequence of Unicode scalar values.
isWellFormed(s) == \A i \in 1..Len(s) : s[i] < 55296 \/ s[i] > 57343

-----------------------------------------------------------------------------
(* Buffer: UTF-8 and Base64, as Node's Buffer computes them *)

\* Buffer.from(str, 'utf-8') for one code point; a lone surrogate is written
\* as U+FFFD (EF BF BD).
utf8Bytes(cp) ==
    IF cp < 128 THEN <<cp>>
    ELSE IF cp < 2048 THEN <<192 + (cp \div 64), 128 + (cp % 64)>>
    ELSE IF cp >= 55296 /\ cp <= 57343 THEN <<239, 191, 189>>
    ELSE IF cp < 65536
         THEN <<224 + (cp \div 4096), 128 + ((cp \div 64) % 64), 128 + (cp % 64)>>
    ELSE <<240 + (cp \div 262144), 128 + ((cp \div 4096) % 64),
           128 + ((cp \div 64) % 64), 128 + (cp % 64)>>

RECURSIVE utf8Encode(_)
utf8Encode(s) ==
    IF s = <<>> THEN <<>> ELSE utf8Bytes(Head(s)) \o utf8Encode(Tail(s))

\* Buffer.from(str, 'latin1'): one byte per code unit, the high bits dropped.
RECURSIVE latin1Encode(_)
latin1Encode(s) ==
    IF s = <<>> THEN <<>> ELSE <<Head(s) % 256>> \o latin1Encode(Tail(s))

isCont(b) == b >= 128 /\ b <= 191

RECURSIVE utf8Decode(_)
\* buf.toString('utf-8'): an ill-formed sequence decodes to U+FFFD.
utf8Decode(b) ==
    IF b = <<>> THEN <<>>
    ELSE LET b0 == b[1]
             n  == Len(b)
         IN  IF b0 < 128 THEN <<b0>> \o utf8Decode(Tail(b))
             ELSE IF b0 >= 194 /\ b0 <= 223 /\ n >= 2 /\ isCont(b[2])
                  THEN <<(b0 - 192) * 64 + (b[2] - 128)>> \o utf8Decode(SubSeq(b, 3, n))
             ELSE IF b0 >= 224 /\ b0 <= 239 /\ n >= 3 /\ isCont(b[2]) /\ isCont(b[3])
                     /\ (b0 - 224) * 4096 + (b[2] - 128) * 64 + (b[3] - 128) >= 2048
                     /\ ~( (b0 - 224) * 4096 + (b[2] - 128) * 64 + (b[3] - 128) >= 55296
                          /\ (b0 - 224) * 4096 + (b[2] - 128) * 64 + (b[3] - 128) <= 57343 )
                  THEN <<(b0 - 224) * 4096 + (b[2] - 128) * 64 + (b[3] - 128)>>
                       \o utf8Decode(SubSeq(b, 4, n))
             ELSE IF b0 >= 240 /\ b0 <= 244 /\ n >= 4
                     /\ isCont(b[2]) /\ isCont(b[3]) /\ isCont(b[4])
                     /\ (b0 - 240) * 262144 + (b[2] - 128) * 4096
                        + (b[3] - 128) * 64 + (b[4] - 128) >= 65536
                     /\ (b0 - 240) * 262144 + (b[2] - 128) * 4096
                        + (b[3] - 128) * 64 + (b[4] - 128) <= 1114111
                  THEN <<(b0 - 240) * 262144 + (b[2] - 128) * 4096
                         + (b[3] - 128) * 64 + (b[4] - 128)>>
                       \o utf8Decode(SubSeq(b, 5, n))
             ELSE <<65533>> \o utf8Decode(Tail(b))

\* The character of the standard Base64 alphabet for the sextet i.
b64Char(i) ==
    IF i < 26 THEN 65 + i
    ELSE IF i < 52 THEN 97 + (i - 26)
    ELSE IF i < 62 THEN 48 + (i - 52)
    ELSE IF i = 62 THEN 43
    ELSE 47

\* The sextet of a Base64 character, -1 when it is none. Node's decoder reads
\* the URL-safe characters '-' and '_' as well as '+' and '/'.
unbase64(c) ==
    IF c >= 65 /\ c <= 90 THEN c - 65
    ELSE IF c >= 97 /\ c <= 122 THEN c - 97 + 26
    ELSE IF c >= 48 /\ c <= 57 THEN c - 48 + 52
    ELSE IF c = 43 \/ c = 45 THEN 62
    ELSE IF c = 47 \/ c = 95 THEN 63
    ELSE -1

RECURSIVE toBase64(_)
\* buf.toString('base64'): three bytes to four characters, '=' padding.
toBase64(b) ==
    IF b = <<>> THEN <<>>
    ELSE IF Len(b) = 1
         THEN <<b64Char(b[1] \div 4), b64Char((b[1] % 4) * 16), 61, 61>>
    ELSE IF Len(b) = 2
         THEN <<b64Char(b[1] \div 4), b64Char((b[1] % 4) * 16 + (b[2] \div 16)),
                b64Char((b[2] % 16) * 4), 61>>
    ELSE <<b64Char(b[1] \div 4), b64Char((b[1] % 4) * 16 + (b[2] \div 16)),
           b64Char((b[2] % 16) * 4 + (b[3] \div 64)), b64Char(b[3] % 64)>>
         \o toBase64(SubSeq(b, 4, Len(b)))

RECURSIVE sextets(_)
\* The sextets Node's decoder reads: characters outside the alphabet are
\* skipped, and decoding stops at the first '='.
sextets(s) ==
    IF s = <<>> \/ Head(s) = 61 THEN <<>>
    ELSE IF unbase64(Head(s)) < 0 THEN sextets(Tail(s))
    ELSE <<unbase64(Head(s))>> \o sextets(Tail(s))

RECURSIVE sextetsToBytes(_)
sextetsToBytes(x) ==
    IF Len(x) < 2 THEN <<>>
    ELSE IF Len(x) = 2 THEN <<x[1] * 4 + (x[2] \div 16)>>
    ELSE IF Len(x) = 3
         THEN <<x[1] * 4 + (x[2] \div 16), (x[2] % 16) * 16 + (x[3] \div 4)>>
    ELSE <<x[1] * 4 + (x[2] \div 16), (x[2] % 16) * 16 + (x[3] \div 4),
           (x[3] % 4) * 64 + x[4]>>
         \o sextetsToBytes(SubSeq(x, 5, Len(x)))

\* Buffer.from(str, 'base64'): never throws.
fromBase64(s) == sextetsToBytes(sextets(s))

-----------------------------------------------------------------------------
(* src/src/utils/urlEncoder.js *)

RECURSIVE stripPadding(_)
\* .replace(/=+$/, '')
stripPadding(s) ==
    IF s # <<>> /\ s[Len(s)] = 61 THEN stripPadding(SubSeq(s, 1, Len(s) - 1)) ELSE s

RECURSIVE padTo4(_)
\* while (base64.length % 4) base64 += '='
padTo4(s) == IF Len(s) % 4 # 0 THEN padTo4(s \o <<61>>) ELSE s

\* A slip of encodeUrl: the buffer is built with 'latin1' instead of 'utf-8'.
encodeUrlLatin1(url) ==
    IF url = <<>> THEN <<>>
    ELSE stripPadding(replaceAll(replaceAll(toBase64(latin1Encode(url)), 43, 45), 47, 95))

encodeUrl(url) ==
    IF url = <<>> THEN <<>>
    ELSE LET base64 == toBase64(utf8Encode(url))
         IN  stripPadding(replaceAll(replaceAll(base64, 43, 45), 47, 95))

decodeUrl(encoded) ==
    IF encoded = <<>> THEN <<>>
    ELSE LET base64 == padTo4(replaceAll(replaceAll(encoded, 45, 43), 95, 47))
         IN  utf8Decode(fromBase64(base64))

-----------------------------------------------------------------------------
(* new URL(url): the WHATWG parser, as far as isValidUrl reads its result *)

Lit_http      == <<104, 116, 116, 112>>                             \* "http"
Lit_https     == <<104, 116, 116, 112, 115>>                        \* "https"
Lit_ftp       == <<102, 116, 112>>                                  \* "ftp"
Lit_ws        == <<119, 115>>                                       \* "ws"
Lit_wss       == <<119, 115, 115>>                                  \* "wss"
Lit_localhost == <<108, 111, 99, 97, 108, 104, 111, 115, 116>>      \* "localhost"
Lit_127_0_0_1 == <<49, 50, 55, 46, 48, 46, 48, 46, 49>>             \* "127.0.0.1"
Lit_0_0_0_0   == <<48, 46, 48, 46, 48, 46, 48>>                     \* "0.0.0.0"
Lit_v6loop    == <<58, 58, 49>>                                     \* "::1"
Lit_192_168   == <<49, 57, 50, 46, 49, 54, 56, 46>>                 \* "192.168."
Lit_10        == <<49, 48, 46>>                                     \* "10."
Lit_172_16    == <<49, 55, 50, 46, 49, 54, 46>>                     \* "172.16."

\* The schemes the URL standard calls special (file: is not among the inputs).
SpecialSchemes == {Lit_http, Lit_https, Lit_ftp, Lit_ws, Lit_wss}

isAlpha(c) == (c >= 65 /\ c <= 90) \/ (c >= 97 /\ c <= 122)

isDigit(c) == c >= 48 /\ c <= 57

isSchemeChar(c) == isAlpha(c) \/ isDigit(c) \/ c \in {43, 45, 46}

\* Code points a host may not hold.
ForbiddenHostChars == {32, 60, 62, 94, 124}

RECURSIVE dropSlashes(_)
\* A special scheme's ':' may be followed by any number of '/' and '\'.
dropSlashes(s) ==
    IF s # <<>> /\ Head(s) \in {47, 92} THEN dropSlashes(Tail(s)) ELSE s

ParseFailure == [ok |-> FALSE, protocol |-> <<>>, hostname |-> <<>>]

\* host[:port] of a special URL: hostname is the serialized host, which for an
\* IPv6 address keeps its square brackets.
parseHostPort(protocol, hostport) ==
    LET close == indexOfAny(hostport, {93})
        colon == indexOfAny(hostport, {58})
        v6    == hostport # <<>> /\ Head(hostport) = 91
        host  == IF v6 THEN SubSeq(hostport, 1, close)
                 ELSE IF colon = 0 THEN hostport
                 ELSE SubSeq(hostport, 1, colon - 1)
        after == SubSeq(hostport, Len(host) + 1, Len(hostport))
        portOk == \/ after = <<>>
                  \/ /\ Head(after) = 58
                     /\ \A i \in 2..Len(after) : isDigit(after[i])
    IN  IF (v6 /\ close = 0) \/ host = <<>> \/ ~portOk
           \/ (\E i \in 1..Len(host) : host[i] \in ForbiddenHostChars)
        THEN ParseFailure
        ELSE [ok |-> TRUE, protocol |-> protocol, hostname |-> toLowerCase(host)]

\* new URL(url) without a base: it throws (ok = FALSE) when url has no scheme
\* or a special scheme without a usable host.
ParseURL(url) ==
    LET colon == indexOfAny(url, {58})
    IN  IF colon < 2 \/ ~isAlpha(url[1])
           \/ (\E i \in 2..(colon - 1) : ~isSchemeChar(url[i]))
        THEN ParseFailure
        ELSE LET scheme   == toLowerCase(SubSeq(url, 1, colon - 1))
                 protocol == scheme \o <<58>>
                 rest     == SubSeq(url, colon + 1, Len(url))
             IN  IF scheme \in SpecialSchemes
                 THEN LET body      == dropSlashes(rest)
                          stop      == indexOfAny(body, {47, 92, 63, 35})
                          authority == IF stop = 0 THEN body
                                       ELSE SubSeq(body, 1, stop - 1)
                          at        == lastIndexOf(authority, 64)
                      IN  parseHostPort(protocol,
                                        SubSeq(authority, at + 1, Len(authority)))
                 ELSE [ok |-> TRUE, protocol |-> protocol, hostname |-> <<>>]

\* allowedProtocols
allowedProtocols == {Lit_http \o <<58>>, Lit_https \o <<58>>}

\* blockedHosts
blockedHosts == {Lit_localhost, Lit_127_0_0_1, Lit_0_0_0_0, Lit_v6loop}

isValidUrl(url) ==
    IF url = <<>> THEN FALSE
    ELSE LET parsed == ParseURL(url)
         IN  IF ~parsed.ok THEN FALSE
             ELSE IF parsed.protocol \notin allowedProtocols THEN FALSE
             ELSE LET hostname == toLowerCase(parsed.hostname)
                  IN  IF hostname \in blockedHosts THEN FALSE
                      ELSE IF \/ startsWith(hostname, Lit_192_168)
                              \/ startsWith(hostname, Lit_10)
                              \/ startsWith(hostname, Lit_172_16)
                           THEN FALSE
                      ELSE TRUE

\* extractDomain(url): the hostname, "unknown" when url does not parse.
extractDomain(url) ==
    IF ParseURL(url).ok THEN ParseURL(url).hostname
    ELSE <<117, 110, 107, 110, 111, 119, 110>>

-----------------------------------------------------------------------------
(* URLs handed to the codec.  A URL is built from its parts, so that what a  *)
(* claim says about "the scheme" or "the host" of a URL is read off the      *)
(* parts and what the code says is read off ParseURL of the text.            *)

MaxTailLen == 2

\* Characters of a path/query/fragment: c > ? # e-acute, euro sign, an emoji
\* (astral), and a lone high surrogate.
TailChars == {99, 62, 63, 35, 233, 8364, 128512, 55296}

RECURSIVE StringsUpTo(_, _)
\* Every string over alphabet cs of length at most n.
StringsUpTo(cs, n) ==
    IF n = 0 THEN {<<>>}
    ELSE LET shorter == StringsUpTo(cs, n - 1)
         IN  shorter \cup {s \o <<c>> : s \in shorter, c \in cs}

InputSchemes == {Lit_http, Lit_https, <<72, 84, 84, 80>>, Lit_ftp}

\* [name, v6]: a host name or address, and whether it is an IPv6 address.
InputHosts ==
    { [name |-> <<101, 120, 97, 109, 112, 108, 101, 46, 99, 111, 109>>, v6 |-> FALSE],  \* example.com
      [name |-> Lit_localhost, v6 |-> FALSE],
      [name |-> <<76, 111, 99, 97, 108, 72, 111, 115, 116>>, v6 |-> FALSE],              \* LocalHost
      [name |-> Lit_127_0_0_1, v6 |-> FALSE],
      [name |-> Lit_0_0_0_0, v6 |-> FALSE],
      [name |-> Lit_v6loop, v6 |-> TRUE],                                                \* [::1]
      [name |-> <<50, 48, 48, 49, 58, 100, 98, 56, 58, 58, 49>>, v6 |-> TRUE],           \* [2001:db8::1]
      [name |-> <<49, 57, 50, 46, 49, 54, 56, 46, 49, 46, 49>>, v6 |-> FALSE],           \* 192.168.1.1
      [name |-> <<49, 48, 46, 48, 46, 48, 46, 49>>, v6 |-> FALSE],                       \* 10.0.0.1
      [name |-> <<49, 55, 50, 46, 49, 54, 46, 48, 46, 49>>, v6 |-> FALSE],               \* 172.16.0.1
      [name |-> <<49, 55, 50, 46, 49, 54, 48, 46, 48, 46, 49>>, v6 |-> FALSE],           \* 172.160.0.1
      [name |-> <<56, 46, 56, 46, 56, 46, 56>>, v6 |-> FALSE] }                          \* 8.8.8.8

InputPorts == {<<>>, <<56, 48, 56, 48>>}                                                 \* none, 8080

Lit_path == <<47, 112, 97, 116, 104, 63, 113, 61, 49>>                                   \* "/path?q=1"

\* kind "hier": scheme://host[:port]tail; "opaque": scheme:tail; "raw": tail.
HierInput(scheme, host, port, tail) ==
    [kind |-> "hier", scheme |-> scheme, host |-> host, port |-> port, tail |-> tail]

NoHost == [name |-> <<>>, v6 |-> FALSE]

CodecInputs ==
    {HierInput(sc, h, p, Lit_path) : sc \in InputSchemes, h \in InputHosts, p \in InputPorts}
    \cup {HierInput(Lit_https, [name |-> <<97>>, v6 |-> FALSE], <<>>, <<47>> \o t) :
              t \in StringsUpTo(TailChars, MaxTailLen)}
    \cup { [kind |-> "opaque", scheme |-> <<106, 97, 118, 97, 115, 99, 114, 105, 112, 116>>,
            host |-> NoHost, port |-> <<>>,
            tail |-> <<97, 108, 101, 114, 116, 40, 49, 41>>],                            \* javascript:alert(1)
           [kind |-> "raw", scheme |-> <<>>, host |-> NoHost, port |-> <<>>,
            tail |-> <<>>],                                                              \* the empty string
           [kind |-> "raw", scheme |-> <<>>, host |-> NoHost, port |-> <<>>,
            tail |-> <<110, 111, 116, 32, 97, 32, 117, 114, 108>>],                      \* "not a url"
           [kind |-> "raw", scheme |-> <<>>, host |-> NoHost, port |-> <<>>,
            tail |-> <<47, 112, 97, 116, 104>>] }                                        \* "/path"

\* The text of a URL built from its parts.
urlText(u) ==
    IF u.kind = "hier"
    THEN u.scheme \o <<58, 47, 47>>
         \o (IF u.host.v6 THEN <<91>> \o u.host.name \o <<93>> ELSE u.host.name)
         \o (IF u.port = <<>> THEN <<>> ELSE <<58>> \o u.port)
         \o u.tail
    ELSE IF u.kind = "opaque" THEN u.scheme \o <<58>> \o u.tail
    ELSE u.tail

-----------------------------------------------------------------------------
(* The codec applied to one input: isValidUrl, then encodeUrl, then decodeUrl *)
(* of the token.                                                              *)

CodecOff == [pc |-> "off"]

PageOff == [pc |-> "off"]

ClientOff == [part |-> "off"]

\* Tokens posted to /api/decode: no token, the token of https://a/, text
\* that is no Base64, a token with a character outside the alphabet, and
\* tokens of the bytes FF and 80, which are no UTF-8.
DecodeTokens ==
    {<<>>, <<97, 72, 82, 48, 99, 72, 77, 54, 76, 121, 57, 104, 76, 119>>, <<33, 33, 33>>, <<97, 71, 107, 42>>, <<95, 119>>, <<103, 65>>}

CodecInit ==
    /\ codec \in {[pc |-> "start", input |-> u, url |-> urlText(u), valid |-> FALSE,
                    encoded |-> <<>>, decoded |-> <<>>, status |-> 0] : u \in CodecInputs}
               \cup
               {[pc |-> "posted",
                 input |-> [kind |-> "raw", scheme |-> <<>>, host |-> NoHost,
                            port |-> <<>>, tail |-> t],
                 url |-> <<>>, valid |-> FALSE, encoded |-> t, decoded |-> <<>>,
                 status |-> 0] : t \in DecodeTokens}
    /\ reqs = <<>>
    /\ outbound = {}
    /\ page = PageOff
    /\ client = ClientOff

CodecValidate ==
    /\ codec.pc = "start"
    /\ codec' = [codec EXCEPT !.pc = "validated", !.valid = isValidUrl(codec.url)]
    /\ UNCHANGED <<reqs, outbound, page, client>>

CodecEncode ==
    /\ codec.pc = "validated"
    /\ codec' = [codec EXCEPT !.pc = "encoded", !.encoded = encodeUrl(codec.url)]
    /\ UNCHANGED <<reqs, outbound, page, client>>

CodecDecode ==
    /\ codec.pc = "encoded"
    /\ codec' = [codec EXCEPT !.pc = "decoded", !.decoded = decodeUrl(codec.encoded)]
    /\ UNCHANGED <<reqs, outbound, page, client>>

\* app.post('/api/decode'): 400 without a token, else the JSON answer with
\* decoded: decodeUrl(encoded).
CodecDecodeRoute ==
    /\ codec.pc = "posted"
    /\ codec' = IF codec.encoded = <<>>
                THEN [codec EXCEPT !.pc = "answered", !.status = 400]
                ELSE [codec EXCEPT !.pc = "answered", !.status = 200,
                                   !.decoded = decodeUrl(codec.encoded)]
    /\ UNCHANGED <<reqs, outbound, page, client>>

CodecNext == CodecValidate \/ CodecEncode \/ CodecDecode \/ CodecDecodeRoute

CodecSpec == CodecInit /\ [][CodecNext]_vars

-----------------------------------------------------------------------------
(* src/src/middleware/errorHandler.js *)

\* An Error object, as far as the handlers read it.  code "" is an absent
\* code, statusCode 0 an absent statusCode, errorCode "" an absent errorCode.
ErrorObject(name, code, message, statusCode, errorCode) ==
    [name |-> name, code |-> code, message |-> message,
     statusCode |-> statusCode, errorCode |-> errorCode]

\* class InvalidUrlError extends AppError (the name stays "Error")
InvalidUrlError ==
    ErrorObject("Error", "", "The provided URL is not valid or is not allowed",
                400, "INVALID_URL")

\* class ContentError extends AppError
ContentError ==
    ErrorObject("Error", "", "Cannot process this type of content",
                415, "UNSUPPORTED_CONTENT")

\* A TypeError thrown by the runtime (encoded.replace is not a function).
TypeError == ErrorObject("TypeError", "", "not a function", 0, "")

\* errorMappings[errorCode], with its default.
errorMappings(errorCode) ==
    CASE errorCode = "ENOTFOUND"        -> "DNS_LOOKUP_FAILED"
      [] errorCode = "ECONNREFUSED"     -> "CONNECTION_REFUSED"
      [] errorCode = "ETIMEDOUT"        -> "CONNECTION_TIMEOUT"
      [] errorCode = "ECONNRESET"       -> "CONNECTION_RESET"
      [] errorCode = "CERT_HAS_EXPIRED" -> "SSL_CERT_EXPIRED"
      [] OTHER                          -> "NETWORK_ERROR"

\* A slip of analyzeError: the lookup key is always the message.
analyzeErrorByMessage(error) == errorMappings(error.message)

\* NetworkError.analyzeError: error.code || error.message is the lookup key.
analyzeError(error) ==
    errorMappings(IF error.code # "" THEN error.code ELSE error.message)

\* class NetworkError extends AppError: always 502.
NetworkError(originalError) ==
    ErrorObject("Error", "", "network", 502, analyzeError(originalError))

\* middleware(err, req, res, next): the error envelope
\* {success: false, error: {code, message, timestamp}} with err.statusCode || 500,
\* unless the headers are sent already (then Express's own handler closes the
\* connection and no second response is written).
middleware(err, sent) ==
    IF Len(sent) > 0 THEN sent
    ELSE Append(sent, [status |-> IF err.statusCode # 0 THEN err.statusCode ELSE 500,
                       shape  |-> "error",
                       code   |-> IF err.errorCode # "" THEN err.errorCode
                                  ELSE "INTERNAL_ERROR"])

-----------------------------------------------------------------------------
(* src/src/handlers/proxyHandler.js: configuration and helpers *)

\* PROXY_CONFIG.timeout (milliseconds); node-fetch reads 0 as "no timeout".
ProxyTimeout == 30000

\* PROXY_CONFIG.maxResponseSize
maxResponseSize == 10 * 1024 * 1024

\* String.prototype.includes
includes(s, sub) ==
    \E i \in 1..(Len(s) - Len(sub) + 1) : SubSeq(s, i, i + Len(sub) - 1) = sub

Lit_text_html  == <<116, 101, 120, 116, 47, 104, 116, 109, 108>>    \* "text/html"
Lit_text_css   == <<116, 101, 120, 116, 47, 99, 115, 115>>          \* "text/css"
Lit_octet      == <<97, 112, 112, 108, 105, 99, 97, 116, 105, 111, 110, 47,
                    111, 99, 116, 101, 116, 45, 115, 116, 114, 101, 97, 109>>  \* "application/octet-stream"

processableTypes ==
    { Lit_text_html,
      <<116, 101, 120, 116, 47, 112, 108, 97, 105, 110>>,                          \* text/plain
      Lit_text_css,
      <<116, 101, 120, 116, 47, 106, 97, 118, 97, 115, 99, 114, 105, 112, 116>>,   \* text/javascript
      <<97, 112, 112, 108, 105, 99, 97, 116, 105, 111, 110, 47,
        106, 97, 118, 97, 115, 99, 114, 105, 112, 116>>,                           \* application/javascript
      <<97, 112, 112, 108, 105, 99, 97, 116, 105, 111, 110, 47, 106, 115, 111, 110>>,  \* application/json
      <<97, 112, 112, 108, 105, 99, 97, 116, 105, 111, 110, 47, 120, 109, 108>>,   \* application/xml
      <<116, 101, 120, 116, 47, 120, 109, 108>>,                                   \* text/xml
      <<105, 109, 97, 103, 101, 47>>,                                              \* image/
      <<102, 111, 110, 116, 47>>,                                                  \* font/
      <<97, 112, 112, 108, 105, 99, 97, 116, 105, 111, 110, 47, 102, 111, 110, 116>>,  \* application/font
      Lit_octet }

isProcessableContent(contentType) ==
    \E type \in processableTypes : includes(contentType, type)

\* The value of a hexadecimal digit, -1 for any other character.
hexVal(c) ==
    IF isDigit(c) THEN c - 48
    ELSE IF c >= 97 /\ c <= 102 THEN c - 87
    ELSE IF c >= 65 /\ c <= 70 THEN c - 55
    ELSE -1

RECURSIVE pctWellFormed(_)
\* Every '%' is followed by two hexadecimal digits.
pctWellFormed(s) ==
    IF s = <<>> THEN TRUE
    ELSE IF Head(s) # 37 THEN pctWellFormed(Tail(s))
    ELSE /\ Len(s) >= 3
         /\ hexVal(s[2]) >= 0
         /\ hexVal(s[3]) >= 0
         /\ pctWellFormed(SubSeq(s, 4, Len(s)))

RECURSIVE pctBytes(_)
\* The bytes a percent-encoded string stands for.
pctBytes(s) ==
    IF s = <<>> THEN <<>>
    ELSE IF Head(s) # 37 THEN utf8Bytes(Head(s)) \o pctBytes(Tail(s))
    ELSE <<16 * hexVal(s[2]) + hexVal(s[3])>> \o pctBytes(SubSeq(s, 4, Len(s)))

countOf(s, cs) == Cardinality({i \in 1..Len(s) : s[i] \in cs})

\* decodeURIComponent(s): ok = FALSE stands for the URIError it throws on a
\* malformed escape or on escapes that are not UTF-8.
decodeURIComponent(s) ==
    IF ~pctWellFormed(s) THEN [ok |-> FALSE, value |-> <<>>]
    ELSE LET value == utf8Decode(pctBytes(s))
         IN  IF countOf(value, {65533}) # countOf(s, {65533} \cup (55296..57343))
             THEN [ok |-> FALSE, value |-> <<>>]
             ELSE [ok |-> TRUE, value |-> value]

\* node-fetch builds a Request from the URL and rejects with a TypeError
\* ("Only absolute URLs are supported", "Only HTTP(S) protocols are supported")
\* before anything is sent.
fetchAccepts(url) ==
    /\ ParseURL(url).ok
    /\ ParseURL(url).protocol \in allowedProtocols

-----------------------------------------------------------------------------
(* new URL(url, base).href: the URL standard's parser and serializer, for    *)
(* http/https bases.  Left out: numeric and percent-encoded hosts, IDNA and  *)
(* file: URLs.  Credentials, and a URL of a non-special scheme after its     *)
(* scheme, are kept as written (true of printable ASCII without space,       *)
(* quotes, angle brackets and backquote).                                    *)

RECURSIVE pctEncode(_, _)
\* Percent-encoding: a code point of keep stays, any other becomes the %XX of
\* its UTF-8 bytes, in uppercase hexadecimal digits.
pctEncode(s, keep) ==
    LET i     == indexOfNone(s, keep)
        bytes == utf8Bytes(s[i])
        hexChar(n) == IF n < 10 THEN 48 + n ELSE 55 + n
        esc   == [k \in 1..(3 * Len(bytes)) |->
                     IF k % 3 = 1 THEN 37
                     ELSE IF k % 3 = 2 THEN hexChar(bytes[(k + 2) \div 3] \div 16)
                     ELSE hexChar(bytes[(k + 2) \div 3] % 16)]
    IN  IF i = 0 THEN s
        ELSE SubSeq(s, 1, i - 1) \o esc \o pctEncode(SubSeq(s, i + 1, Len(s)), keep)

\* encodeURIComponent: letters, digits and - _ . ! ~ * ' ( ) stay.
encodeURIComponent(s) ==
    pctEncode(s, (48..57) \cup (65..90) \cup (97..122)
                 \cup {45, 95, 46, 33, 126, 42, 39, 40, 41})

RECURSIVE splitOn(_, _)
\* The pieces of s between the separators of seps.
splitOn(s, seps) ==
    LET i == indexOfAny(s, seps)
    IN  IF i = 0 THEN <<s>>
        ELSE <<SubSeq(s, 1, i - 1)>> \o splitOn(SubSeq(s, i + 1, Len(s)), seps)

RECURSIVE joinWith(_, _)
\* Array.prototype.join
joinWith(parts, sep) ==
    IF parts = <<>> THEN <<>>
    ELSE IF Len(parts) = 1 THEN parts[1]
    ELSE parts[1] \o sep \o joinWith(Tail(parts), sep)

RECURSIVE pathOf(_, _)
\* The path state: segs are the segments still to read, out the path so far.
\* "." is skipped, ".." drops the last segment, both also when written with
\* %2e; a dot segment at the end leaves an empty last segment.
pathOf(segs, out) ==
    IF segs = <<>> THEN <<47>> \o joinWith(out, <<47>>)
    ELSE LET seg    == toLowerCase(Head(segs))
             last   == Len(segs) = 1
             single == seg \in {<<46>>, <<37, 50, 101>>}
             double == seg \in {<<46, 46>>, <<46, 37, 50, 101>>, <<37, 50, 101, 46>>, <<37, 50, 101, 37, 50, 101>>}
             popped == IF out = <<>> THEN <<>> ELSE SubSeq(out, 1, Len(out) - 1)
             keep   == (33..126) \ {34, 35, 60, 62, 63, 96, 123, 125}
         IN  IF double
             THEN pathOf(Tail(segs), IF last THEN Append(popped, <<>>) ELSE popped)
             ELSE IF single
             THEN pathOf(Tail(segs), IF last THEN Append(out, <<>>) ELSE out)
             ELSE pathOf(Tail(segs), Append(out, pctEncode(Head(segs), keep)))

NoURL == [ok |-> FALSE, scheme |-> <<>>, authority |-> <<>>, path |-> <<>>,
          query |-> <<>>, fragment |-> <<>>, segs |-> <<>>]

\* Path, query and fragment of a special URL, from the text after its
\* authority; before is the path the text is relative to.
URLTail(scheme, authority, text, before) ==
    LET hash  == indexOfAny(text, {35})
        front == IF hash = 0 THEN text ELSE SubSeq(text, 1, hash - 1)
        frag  == IF hash = 0 THEN <<>> ELSE SubSeq(text, hash + 1, Len(text))
        mark  == indexOfAny(front, {63})
        p     == IF mark = 0 THEN front ELSE SubSeq(front, 1, mark - 1)
        q     == IF mark = 0 THEN <<>> ELSE SubSeq(front, mark + 1, Len(front))
        segs  == IF p # <<>> /\ Head(p) \in {47, 92}
                 THEN splitOn(Tail(p), {47, 92})
                 ELSE SubSeq(before, 1, Len(before) - 1) \o splitOn(p, {47, 92})
        path  == pathOf(segs, <<>>)
    IN  [ok |-> TRUE, scheme |-> scheme, authority |-> authority,
         path |-> path,
         query |-> IF mark = 0 THEN <<>>
                   ELSE <<63>> \o pctEncode(q, (33..126) \ {34, 35, 60, 62, 39}),
         fragment |-> IF hash = 0 THEN <<>>
                      ELSE <<35>> \o pctEncode(frag, (33..126) \ {34, 60, 62, 96}),
         segs |-> splitOn(Tail(path), {47})]

\* The authority state and what follows it: body is the text after the
\* slashes that follow the scheme.
URLAuthority(scheme, body) ==
    LET stop      == indexOfAny(body, {47, 92, 63, 35})
        authority == IF stop = 0 THEN body ELSE SubSeq(body, 1, stop - 1)
        text      == IF stop = 0 THEN <<>> ELSE SubSeq(body, stop, Len(body))
        at        == lastIndexOf(authority, 64)
        hostport  == SubSeq(authority, at + 1, Len(authority))
        parsed    == parseHostPort(scheme \o <<58>>, hostport)
        port      == SubSeq(hostport, Len(parsed.hostname) + 2, Len(hostport))
        default   == IF scheme = Lit_http THEN <<56, 48>>
                     ELSE IF scheme = Lit_https THEN <<52, 52, 51>> ELSE <<>>
    IN  IF ~parsed.ok THEN NoURL
        ELSE URLTail(scheme,
                     <<47, 47>> \o SubSeq(authority, 1, at) \o parsed.hostname
                        \o (IF port \in {<<>>, default} THEN <<>> ELSE <<58>> \o port),
                     text, <<<<>>>>)

\* new URL(input, base), base being a parsed URL or NoURL for no base.
URLParse(input, base) ==
    LET inner   == SelectSeq(input, LAMBDA c : c \notin {9, 10, 13})
        first   == indexOfNone(inner, 0..32)
        last    == IF first = 0 THEN 0
                   ELSE CHOOSE i \in first..Len(inner) :
                            inner[i] > 32 /\ \A j \in (i + 1)..Len(inner) : inner[j] <= 32
        s       == IF first = 0 THEN <<>> ELSE SubSeq(inner, first, last)
        colon   == indexOfAny(s, {58})
        schemed == /\ colon >= 2
                   /\ isAlpha(s[1])
                   /\ \A i \in 2..(colon - 1) : isSchemeChar(s[i])
        scheme  == IF schemed THEN toLowerCase(SubSeq(s, 1, colon - 1)) ELSE <<>>
        rest    == IF schemed THEN SubSeq(s, colon + 1, Len(s)) ELSE s
        slashes == Len(rest) >= 2 /\ rest[1] \in {47, 92} /\ rest[2] \in {47, 92}
    IN  IF schemed /\ scheme \notin SpecialSchemes
        THEN [NoURL EXCEPT !.ok = TRUE, !.scheme = scheme, !.path = rest]
        ELSE IF schemed /\ ~(base.ok /\ base.scheme = scheme /\ ~startsWith(rest, <<47, 47>>))
        THEN URLAuthority(scheme, dropSlashes(rest))
        ELSE IF ~base.ok \/ base.scheme \notin SpecialSchemes THEN NoURL
        ELSE IF slashes THEN URLAuthority(base.scheme, dropSlashes(rest))
        ELSE IF rest = <<>> \/ Head(rest) = 35
        THEN [URLTail(base.scheme, base.authority, rest, base.segs)
                 EXCEPT !.path = base.path, !.segs = base.segs, !.query = base.query]
        ELSE IF Head(rest) = 63
        THEN [URLTail(base.scheme, base.authority, rest, base.segs)
                 EXCEPT !.path = base.path, !.segs = base.segs]
        ELSE URLTail(base.scheme, base.authority, rest, base.segs)

\* url.href
URLHref(u) ==
    u.scheme \o <<58>> \o u.authority \o u.path \o u.query \o u.fragment

-----------------------------------------------------------------------------
(* src/src/handlers/proxyHandler.js: the Rewrite Engine *)

\* The code points the regular expression \s and String.prototype.trim take
\* for white space.
WhiteSpace ==
    {9, 10, 11, 12, 13, 32, 160, 5760, 8232, 8233, 8239, 8287, 12288, 65279}
    \cup (8192..8202)

trim(s) ==
    LET inside == {i \in 1..Len(s) : s[i] \notin WhiteSpace}
    IN  IF inside = {} THEN <<>>
        ELSE SubSeq(s, CHOOSE i \in inside : \A j \in inside : i <= j,
                       CHOOSE i \in inside : \A j \in inside : i >= j)

\* The first index of s at or after from that holds an element of cs, 0 when
\* there is none.
indexFrom(s, from, cs) ==
    LET k == indexOfAny(SubSeq(s, from, Len(s)), cs)
    IN  IF k = 0 THEN 0 ELSE from + k - 1

\* s holds the lowercase literal lit at index i, in any case (the i flag).
matchesAt(s, i, lit) ==
    /\ i + Len(lit) - 1 <= Len(s)
    /\ toLowerCase(SubSeq(s, i, i + Len(lit) - 1)) = lit

Null == [ok |-> FALSE, value |-> <<>>]

\* The prefixes resolveUrl does not proxy.
SkippedPrefixes == {<<100, 97, 116, 97, 58>>, <<106, 97, 118, 97, 115, 99, 114, 105, 112, 116, 58>>, <<109, 97, 105, 108, 116, 111, 58>>, <<116, 101, 108, 58>>, <<35>>}

\* resolveUrl(url, baseUrl): the absolute URL, or Null for null.
resolveUrl(url, baseUrl) ==
    LET href(parsed) == IF parsed.ok THEN [ok |-> TRUE, value |-> URLHref(parsed)] ELSE Null
    IN  IF startsWith(url, <<47, 47>>) THEN [ok |-> TRUE, value |-> <<104, 116, 116, 112, 115, 58>> \o url]
        ELSE IF \E p \in SkippedPrefixes : startsWith(url, p) THEN Null
        ELSE href(URLParse(url, URLParse(baseUrl, NoURL)))

\* makeProxyUrl(resourceUrl, proxyBase)
makeProxyUrl(resourceUrl, proxyBase) ==
    IF ~resourceUrl.ok \/ resourceUrl.value = <<>> THEN Null
    ELSE [ok |-> TRUE,
          value |-> proxyBase \o <<47, 97, 112, 105, 47, 114, 101, 115, 111, 117, 114, 99, 101, 63, 117, 114, 108, 61>>
                    \o encodeURIComponent(resourceUrl.value)]

\* The regular expressions of the rewrite passes, by the name of the pass:
\*   src     /(<[^>]+\ssrc=["'])([^"']+)(["'][^>]*>)/gi
\*   href    /(<link[^>]+\shref=["'])([^"']+)(["'][^>]*>)/gi
\*   action  /(<form[^>]+\saction=["'])([^"']+)(["'][^>]*>)/gi
\*   srcset  /(<[^>]+\ssrcset=["'])([^"']+)(["'][^>]*>)/gi
\*   url     /url\(["']?([^"')]+)["']?\)/gi
\*   import  /@import\s+["']([^"']+)["']/gi
\* matchAt is the match that starts at index i: the match is s[i..end], its
\* URL group s[a..b].  A greedy [^>]+ takes the last place in the tag where
\* the rest of the expression still matches.
NoMatch == [found |-> FALSE, a |-> 0, b |-> 0, end |-> 0]

matchAt(pass, s, i) ==
    LET n == Len(s)
        quotes == {34, 39}
    IN  IF pass = "url"
        THEN LET c0 == IF i + 4 <= n /\ s[i + 4] \in quotes THEN i + 5 ELSE i + 4
                 x  == indexFrom(s, c0, {34, 39, 41})
             IN  IF ~matchesAt(s, i, <<117, 114, 108, 40>>) \/ x <= c0 THEN NoMatch
                 ELSE IF s[x] = 41 THEN [found |-> TRUE, a |-> c0, b |-> x - 1, end |-> x]
                 ELSE IF x + 1 <= n /\ s[x + 1] = 41
                 THEN [found |-> TRUE, a |-> c0, b |-> x - 1, end |-> x + 1]
                 ELSE NoMatch
        ELSE IF pass = "import"
        THEN LET w == indexOfNone(SubSeq(s, i + 7, n), WhiteSpace)
                 q == i + 7 + w - 1
                 e == indexFrom(s, q + 1, quotes)
             IN  IF matchesAt(s, i, <<64, 105, 109, 112, 111, 114, 116>>) /\ w >= 2 /\ s[q] \in quotes /\ e > q + 1
                 THEN [found |-> TRUE, a |-> q + 1, b |-> e - 1, end |-> e]
                 ELSE NoMatch
        ELSE LET tag  == CASE pass = "href" -> <<60, 108, 105, 110, 107>> [] pass = "action" -> <<60, 102, 111, 114, 109>>
                           [] OTHER -> <<60>>
                 attr == CASE pass = "src" -> <<115, 114, 99, 61>> [] pass = "href" -> <<104, 114, 101, 102, 61>>
                           [] pass = "action" -> <<97, 99, 116, 105, 111, 110, 61>> [] OTHER -> <<115, 114, 99, 115, 101, 116, 61>>
                 t0   == i + Len(tag)
                 g0   == indexFrom(s, t0, {62})
                 g    == IF g0 = 0 THEN n + 1 ELSE g0
                 q(j) == j + Len(attr) + 1
                 e(j) == indexFrom(s, q(j) + 1, quotes)
                 J    == {j \in (t0 + 1)..(g - 1) :
                             /\ s[j] \in WhiteSpace
                             /\ matchesAt(s, j + 1, attr)
                             /\ q(j) <= n
                             /\ s[q(j)] \in quotes
                             /\ e(j) > q(j) + 1
                             /\ indexFrom(s, e(j) + 1, {62}) > 0}
                 j    == CHOOSE k \in J : \A l \in J : l <= k
             IN  IF ~matchesAt(s, i, tag) \/ J = {} THEN NoMatch
                 ELSE [found |-> TRUE, a |-> q(j) + 1, b |-> e(j) - 1,
                       end |-> indexFrom(s, e(j) + 1, {62})]

\* The srcset callback: the candidates are split at the commas, the first
\* word of each is resolved and proxied, and they are joined again.
rewriteSrcset(srcset, baseUrl, proxyBase) ==
    LET RECURSIVE words(_)
        words(t) == LET w == indexOfAny(t, WhiteSpace)
                        rest == SubSeq(t, w + 1, Len(t))
                        more == indexOfNone(rest, WhiteSpace)
                    IN  IF w = 0 THEN <<t>>
                        ELSE <<SubSeq(t, 1, w - 1)>>
                             \o words(SubSeq(rest, more, Len(rest)))
        parts(entry) == words(trim(entry))
        joined(p, proxyUrl) ==
            joinWith(IF proxyUrl.ok THEN <<proxyUrl.value>> \o Tail(p) ELSE p, <<32>>)
        entries == splitOn(srcset, {44})
    IN  joinWith([k \in 1..Len(entries) |->
                     joined(parts(entries[k]),
                            makeProxyUrl(resolveUrl(parts(entries[k])[1], baseUrl), proxyBase))],
                 <<44, 32>>)

\* What the callback of a pass returns for the match m of s.
replacement(pass, s, i, m, baseUrl, proxyBase) ==
    LET url    == SubSeq(s, m.a, m.b)
        prefix == SubSeq(s, i, m.a - 1)
        suffix == SubSeq(s, m.b + 1, m.end)
        written(proxyUrl) ==
            IF ~proxyUrl.ok THEN SubSeq(s, i, m.end)
            ELSE IF pass = "url" THEN <<117, 114, 108, 40, 34>> \o proxyUrl.value \o <<34, 41>>
            ELSE IF pass = "import" THEN <<64, 105, 109, 112, 111, 114, 116, 32, 34>> \o proxyUrl.value \o <<34>>
            ELSE prefix \o proxyUrl.value \o suffix
    IN  IF pass = "srcset" THEN prefix \o rewriteSrcset(url, baseUrl, proxyBase) \o suffix
        ELSE written(makeProxyUrl(resolveUrl(trim(url), baseUrl), proxyBase))

RECURSIVE rewritePass(_, _, _, _, _)
\* html.replace(regex, callback) with the g flag, from index i on: every match,
\* left to right, no two overlapping.
rewritePass(pass, s, i, baseUrl, proxyBase) ==
    LET opening == IF pass = "url" THEN {117, 85}
                   ELSE IF pass = "import" THEN {64} ELSE {60}
        starts  == {k \in i..Len(s) : s[k] \in opening /\ matchAt(pass, s, k).found}
        k       == CHOOSE x \in starts : \A y \in starts : x <= y
        m       == matchAt(pass, s, k)
    IN  IF starts = {} THEN SubSeq(s, i, Len(s))
        ELSE SubSeq(s, i, k - 1)
             \o replacement(pass, s, k, m, baseUrl, proxyBase)
             \o rewritePass(pass, s, m.end + 1, baseUrl, proxyBase)

RECURSIVE rewritePasses(_, _, _, _)
\* The passes of the list, one after the other, each on what the one before
\* returned.
rewritePasses(passes, s, baseUrl, proxyBase) ==
    IF passes = <<>> THEN s
    ELSE rewritePasses(Tail(passes), rewritePass(Head(passes), s, 1, baseUrl, proxyBase),
                       baseUrl, proxyBase)

RECURSIVE expandDollar(_, _, _, _)
\* The replacement text String.prototype.replace makes of a replacement
\* string: $$ is a dollar sign, $& the match, $` the text before it, $' the
\* text after it.
expandDollar(repl, match, before, after) ==
    LET at == {i \in 1..(Len(repl) - 1) : repl[i] = 36 /\ repl[i + 1] \in {36, 38, 96, 39}}
        i  == CHOOSE k \in at : \A l \in at : k <= l
    IN  IF at = {} THEN repl
        ELSE SubSeq(repl, 1, i - 1)
             \o (CASE repl[i + 1] = 36 -> <<36>>
                    [] repl[i + 1] = 38 -> match
                    [] repl[i + 1] = 96 -> before
                    [] OTHER            -> after)
             \o expandDollar(SubSeq(repl, i + 2, Len(repl)), match, before, after)

\* const baseTag
baseTag(baseUrl) == <<60, 98, 97, 115, 101, 32, 104, 114, 101, 102, 61, 34>> \o baseUrl \o <<34, 62>>

\* const proxyInterceptScript: the <script> block with its two constants; the
\* text of the functions between them and the closing lines is left out.
proxyInterceptScript(baseUrl, proxyBase) ==
    <<10>> \o <<60, 115, 99, 114, 105, 112, 116, 62, 40, 102, 117, 110, 99, 116, 105, 111, 110, 40, 41, 32, 123, 99, 111, 110, 115, 116, 32, 80, 82, 79, 88, 89, 95, 66, 65, 83, 69, 32, 61, 32, 39>> \o proxyBase
    \o <<39, 59, 99, 111, 110, 115, 116, 32, 66, 65, 83, 69, 95, 85, 82, 76, 32, 61, 32, 39>> \o baseUrl \o <<39, 59, 125, 41, 40, 41, 59, 60, 47, 115, 99, 114, 105, 112, 116, 62>>

\* The first match of /<head[^>]*>/i, as [found, a, b, end] with the match
\* s[a..end].
headMatch(s) ==
    LET starts == {i \in 1..Len(s) : matchesAt(s, i, <<60, 104, 101, 97, 100>>) /\ indexFrom(s, i + 5, {62}) > 0}
        i      == CHOOSE k \in starts : \A l \in starts : k <= l
    IN  IF starts = {} THEN NoMatch
        ELSE [found |-> TRUE, a |-> i, b |-> i, end |-> indexFrom(s, i + 5, {62})]

\* transformHtml(html, baseUrl, proxyBase)
transformHtml(html, baseUrl, proxyBase) ==
    LET script == proxyInterceptScript(baseUrl, proxyBase)
        inserted(s, head, before, after) ==
            IF head.found
            THEN before
                 \o expandDollar(<<36, 38>> \o <<10>> \o baseTag(baseUrl) \o <<10>> \o script,
                                 SubSeq(s, head.a, head.end), before, after)
                 \o after
            ELSE baseTag(baseUrl) \o <<10>> \o script \o <<10>> \o s
        headed(s, head) ==
            inserted(s, head, SubSeq(s, 1, head.a - 1), SubSeq(s, head.end + 1, Len(s)))
        rewritten(s) == headed(s, headMatch(s))
    IN  rewritten(rewritePasses(<<"src", "href", "action", "srcset", "url">>, html,
                                baseUrl, proxyBase))

-----------------------------------------------------------------------------
(* The Rewrite Engine applied to one document, and the page it makes: the    *)
(* document is an element that holds one reference, inside a wrapper.        *)

\* The origin of the proxy: protocol://host of the request to /api/proxy.
Lit_proxyBase == <<104, 116, 116, 112, 58, 47, 47, 112>>

\* Final URLs of the documents: a directory, and a query that holds "$&".
PageUrls == {<<104, 116, 116, 112, 115, 58, 47, 47, 97, 47, 100, 47>>, <<104, 116, 116, 112, 115, 58, 47, 47, 97, 47, 63, 99, 61, 36, 38, 100>>}

\* References, as a document writes them.
References ==
    { <<47, 97, 46, 112, 110, 103>>, <<98, 46, 112, 110, 103>>, <<46, 46, 47, 99, 46, 112, 110, 103, 63, 120, 61, 49, 38, 121, 61, 50>>, <<32, 101, 46, 112, 110, 103, 32>>, <<47, 47, 104, 47, 121, 46, 112, 110, 103>>,
      <<104, 116, 116, 112, 115, 58, 47, 47, 99, 47, 120, 46, 112, 110, 103>>, <<100, 97, 116, 97, 58, 105, 109, 97, 103, 101, 47, 112, 110, 103, 59, 98, 97, 115, 101, 54, 52, 44, 65, 65, 65, 65>>, <<106, 97, 118, 97, 115, 99, 114, 105, 112, 116, 58, 118, 111, 105, 100, 40, 48, 41>>,
      <<109, 97, 105, 108, 116, 111, 58, 97, 64, 98>>, <<116, 101, 108, 58, 49>>, <<35, 116, 111, 112>>, <<104, 116, 116, 112, 58, 47, 47>>, <<117, 114, 108, 40, 44, 47, 98, 46, 112, 110, 103, 41>> }

\* Elements: the attribute (or CSS function) that holds the reference, the
\* text before the reference and the text after it.
Elements ==
    { [name |-> "img",    pass |-> "src",    open |-> <<60, 105, 109, 103, 32, 115, 114, 99, 61, 34>>,   close |-> <<34, 62>>],
      [name |-> "script", pass |-> "src",    open |-> <<60, 115, 99, 114, 105, 112, 116, 32, 115, 114, 99, 61, 39>>,
                                             close |-> <<39, 62, 60, 47, 115, 99, 114, 105, 112, 116, 62>>],
      [name |-> "a",      pass |-> "href",   open |-> <<60, 97, 32, 104, 114, 101, 102, 61, 34>>,    close |-> <<34, 62, 120, 60, 47, 97, 62>>],
      [name |-> "link",   pass |-> "href",   open |-> <<60, 108, 105, 110, 107, 32, 114, 101, 108, 61, 34, 115, 116, 121, 108, 101, 115, 104, 101, 101, 116, 34, 32, 104, 114, 101, 102, 61, 34>>,
                                             close |-> <<34, 62>>],
      [name |-> "link1",  pass |-> "href",   open |-> <<60, 108, 105, 110, 107, 32, 104, 114, 101, 102, 61, 34>>,
                                             close |-> <<34, 32, 114, 101, 108, 61, 34, 115, 116, 121, 108, 101, 115, 104, 101, 101, 116, 34, 62>>],
      [name |-> "form",   pass |-> "action", open |-> <<60, 102, 111, 114, 109, 32, 109, 101, 116, 104, 111, 100, 61, 34, 112, 111, 115, 116, 34, 32, 97, 99, 116, 105, 111, 110, 61, 34>>,
                                             close |-> <<34, 62>>],
      [name |-> "form1",  pass |-> "action", open |-> <<60, 102, 111, 114, 109, 32, 97, 99, 116, 105, 111, 110, 61, 34>>, close |-> <<34, 62>>],
      [name |-> "srcset", pass |-> "srcset", open |-> <<60, 105, 109, 103, 32, 115, 114, 99, 115, 101, 116, 61, 34>>, close |-> <<32, 50, 120, 34, 62>>],
      [name |-> "style",  pass |-> "url",    open |-> <<60, 112, 32, 115, 116, 121, 108, 101, 61, 34, 99, 111, 108, 111, 114, 58, 114, 101, 100, 59, 98, 97, 99, 107, 103, 114, 111, 117, 110, 100, 58, 117, 114, 108, 40>>,
                                             close |-> <<41, 34, 62>>],
      [name |-> "css",    pass |-> "url",    open |-> <<60, 115, 116, 121, 108, 101, 62, 97, 123, 98, 58, 117, 114, 108, 40, 39>>,
                                             close |-> <<39, 41, 125, 60, 47, 115, 116, 121, 108, 101, 62>> ] }

\* Wrappers: a bare fragment, a document with a <head> element, and a
\* document without <head> whose body holds a <header> element.
Wrappers ==
    { [name |-> "bare",   open |-> <<>>, close |-> <<>>],
      [name |-> "head",   open |-> <<60, 104, 116, 109, 108, 62, 60, 104, 101, 97, 100, 62, 60, 47, 104, 101, 97, 100, 62, 60, 98, 111, 100, 121, 62>>, close |-> <<60, 47, 98, 111, 100, 121, 62, 60, 47, 104, 116, 109, 108, 62>>],
      [name |-> "header", open |-> <<60, 98, 111, 100, 121, 62, 60, 104, 101, 97, 100, 101, 114, 62, 72, 105, 60, 47, 104, 101, 97, 100, 101, 114, 62>>, close |-> <<60, 47, 98, 111, 100, 121, 62>>] }

\* The text of the document.
htmlOf(wrapper, element, reference) ==
    wrapper.open \o element.open \o reference \o element.close \o wrapper.close

\* function proxyUrl(url) of the injected script.
shimProxyUrl(url, baseUrl, proxyBase) ==
    LET proxied(resolved) ==
            IF ~resolved.ok THEN url
            ELSE proxyBase \o <<47, 97, 112, 105, 47, 114, 101, 115, 111, 117, 114, 99, 101, 63, 117, 114, 108, 61>> \o encodeURIComponent(URLHref(resolved))
    IN  IF \E p \in {<<100, 97, 116, 97, 58>>, <<106, 97, 118, 97, 115, 99, 114, 105, 112, 116, 58>>, <<98, 108, 111, 98, 58>>} : startsWith(url, p) THEN url
        ELSE proxied(URLParse(url, URLParse(baseUrl, NoURL)))

\* The ways page script hands a URL to the browser.  The injected script
\* wraps window.fetch and XMLHttpRequest.prototype.open, nothing else.
Channels ==
    {"img.src", "script.src", "link.href", "a.href", "video.src",
     "setAttribute(src)", "setAttribute(href)", "setAttribute(action)",
     "fetch(string)", "fetch(Request)", "xhr.open"}

\* The URL the browser is given when page script passes url through channel.
shimEffect(channel, url, baseUrl, proxyBase) ==
    IF channel \in {"fetch(string)", "fetch(Request)", "xhr.open"}
    THEN shimProxyUrl(url, baseUrl, proxyBase)
    ELSE url

\* URLs page script assigns: relative, absolute, and one that is a
\* resource-endpoint URL already.
ScriptUrls ==
    { <<47, 97, 46, 112, 110, 103>>, <<104, 116, 116, 112, 115, 58, 47, 47, 99, 47, 120, 46, 112, 110, 103>>,
      Lit_proxyBase \o <<47, 97, 112, 105, 47, 114, 101, 115, 111, 117, 114, 99, 101, 63, 117, 114, 108, 61, 104, 116, 116, 112, 115, 37, 51, 65, 37, 50, 70, 37, 50, 70, 97, 37, 50, 70, 97, 46, 112, 110, 103>> }

RewriteInit ==
    /\ page \in {[pc |-> "fetched", wrapper |-> w, element |-> e, reference |-> r,
                  html |-> htmlOf(w, e, r), baseUrl |-> u, proxyBase |-> Lit_proxyBase,
                  content |-> <<>>, channel |-> "", assigned |-> <<>>, given |-> <<>>] :
                     w \in Wrappers, e \in Elements, r \in References, u \in PageUrls}
    /\ codec = CodecOff
    /\ reqs = <<>>
    /\ outbound = {}
    /\ client = ClientOff

\* processedContent = transformHtml(responseBody, finalUrl, proxyBase)
RewriteTransform ==
    /\ page.pc = "fetched"
    /\ page' = [page EXCEPT !.pc = "rewritten",
                            !.content = transformHtml(page.html, page.baseUrl, page.proxyBase)]
    /\ UNCHANGED <<codec, reqs, outbound, client>>

\* The page is loaded, the injected script has run, and page script hands a
\* URL to the browser.
ShimAssign ==
    /\ page.pc = "rewritten"
    /\ \E channel \in Channels, url \in ScriptUrls :
          page' = [page EXCEPT !.pc = "assigned", !.channel = channel, !.assigned = url,
                               !.given = shimEffect(channel, url, page.baseUrl,
                                                    page.proxyBase)]
    /\ UNCHANGED <<codec, reqs, outbound, client>>

RewriteNext == RewriteTransform \/ ShimAssign

RewriteSpec == RewriteInit /\ [][RewriteNext]_vars

-----------------------------------------------------------------------------
(* node-fetch: what an outbound fetch can come to *)

NoError == ErrorObject("", "", "", 0, "")

NoOutcome == [kind |-> "none"]

\* FetchError of type 'system': code is the code of the socket/TLS error.
SystemCodes ==
    {"ENOTFOUND", "ECONNREFUSED", "ETIMEDOUT", "ECONNRESET", "CERT_HAS_EXPIRED", "EPIPE"}

systemError(code) == ErrorObject("FetchError", code, "request failed", 0, "")

\* FetchError of type 'request-timeout': options.timeout passed before the
\* response came.  It carries no code.
requestTimeout == ErrorObject("FetchError", "", "network timeout", 0, "")

\* FetchError of type 'body-timeout': options.timeout passed while the body
\* was read.  It carries no code.
bodyTimeout == ErrorObject("FetchError", "", "response timeout", 0, "")

\* Content-Type headers of the upstream answers; <<>> is a missing header.
UpstreamContentTypes ==
    { <<>>,
      <<116, 101, 120, 116, 47, 104, 116, 109, 108, 59, 32, 99, 104, 97, 114,
        115, 101, 116, 61, 117, 116, 102, 45, 56>>,                 \* text/html; charset=utf-8
      Lit_text_css,
      <<97, 112, 112, 108, 105, 99, 97, 116, 105, 111, 110, 47, 112, 100, 102>> }  \* application/pdf

\* The header lines of an upstream answer besides Content-Type, as the target
\* writes them: those of a page, of a stylesheet, of a document, and none.
upstreamHeaders(contentType) ==
    (IF contentType = <<>> THEN {} ELSE {<<<<67, 111, 110, 116, 101, 110, 116, 45, 84, 121, 112, 101>>, contentType>>})
    \cup
    (IF includes(contentType, Lit_text_html)
     THEN {<<<<88, 45, 70, 114, 97, 109, 101, 45, 79, 112, 116, 105, 111, 110, 115>>, <<68, 69, 78, 89>>>>,
           <<<<67, 111, 110, 116, 101, 110, 116, 45, 83, 101, 99, 117, 114, 105, 116, 121, 45, 80, 111, 108, 105, 99, 121>>, <<100, 101, 102, 97, 117, 108, 116, 45, 115, 114, 99, 32, 39, 115, 101, 108, 102, 39>>>>,
           <<<<67, 97, 99, 104, 101, 45, 67, 111, 110, 116, 114, 111, 108>>, <<110, 111, 45, 115, 116, 111, 114, 101>>>>}
     ELSE IF includes(contentType, Lit_text_css)
     THEN {<<<<120, 45, 99, 111, 110, 116, 101, 110, 116, 45, 116, 121, 112, 101, 45, 111, 112, 116, 105, 111, 110, 115>>, <<110, 111, 115, 110, 105, 102, 102>>>>, <<<<69, 84, 97, 103>>, <<34, 49, 34>>>>}
     ELSE IF contentType # <<>>
     THEN {<<<<83, 84, 82, 73, 67, 84, 45, 84, 82, 65, 78, 83, 80, 79, 82, 84, 45, 83, 69, 67, 85, 82, 73, 84, 89>>, <<109, 97, 120, 45, 97, 103, 101, 61, 49>>>>,
           <<<<67, 111, 110, 116, 101, 110, 116, 45, 68, 105, 115, 112, 111, 115, 105, 116, 105, 111, 110>>, <<105, 110, 108, 105, 110, 101>>>>}
     ELSE {})

\* A URL the target redirects to.
Url_moved == <<104, 116, 116, 112, 115, 58, 47, 47, 98, 47, 100, 47>>

\* Upstream bodies: bytes is the size on the wire, chars the length of the
\* decoded string, text the decoded string of a body short enough to be held
\* (<<>> for the long ones).  An HTML document, a stylesheet, and bodies at
\* the ceiling, one byte over it, and of twelve million bytes of two-byte
\* characters.
UpstreamBodies ==
    { [bytes |-> 17, chars |-> 17, text |-> <<60, 105, 109, 103, 32, 115, 114, 99, 61, 34, 97, 46, 112, 110, 103, 34, 62>>],
      [bytes |-> 34, chars |-> 34, text |-> <<64, 105, 109, 112, 111, 114, 116, 32, 34, 46, 47, 98, 46, 99, 115, 115, 34, 59, 32, 97, 123, 98, 58, 117, 114, 108, 40, 105, 46, 112, 110, 103, 41, 125>>],
      [bytes |-> maxResponseSize, chars |-> maxResponseSize, text |-> <<>>],
      [bytes |-> maxResponseSize + 1, chars |-> maxResponseSize + 1, text |-> <<>>],
      [bytes |-> 12000000, chars |-> 6000000, text |-> <<>>] }

\* The outcomes of await fetch(url, options).  A silent target never answers:
\* only the timer of options.timeout settles the promise, and a timeout of 0
\* sets no timer.  With redirect: 'follow' the response is that of the last
\* URL of the redirect chain, and response.url is that URL.
fetchOutcomes(url, options, target) ==
    (IF options.timeout > 0
     THEN {[kind |-> "error", error |-> requestTimeout]} ELSE {})
    \cup
    (IF target = "silent" THEN {}
     ELSE {[kind |-> "error", error |-> systemError(c)] : c \in SystemCodes}
          \cup {[kind |-> "response", contentType |-> ct, url |-> u,
                   headers |-> upstreamHeaders(ct)] :
                    ct \in UpstreamContentTypes,
                    u \in IF options.redirect = "follow" THEN {url, Url_moved} ELSE {url}})

\* The outcomes of await response.text() / response.buffer().
bodyOutcomes(options, target) ==
    (IF options.timeout > 0
     THEN {[kind |-> "error", error |-> bodyTimeout]} ELSE {})
    \cup
    (IF target = "silent" THEN {}
     ELSE {[kind |-> "error", error |-> systemError("ECONNRESET")]}
          \cup {[kind |-> "text", bytes |-> b.bytes, chars |-> b.chars, text |-> b.text] :
                    b \in UpstreamBodies})

\* The fetch options without the timeout.
fetchOptionsNoTimeout == [method |-> "GET", timeout |-> 0, redirect |-> "follow"]

\* The options both handlers pass to fetch.
fetchOptions == [method |-> "GET", timeout |-> ProxyTimeout, redirect |-> "follow"]

-----------------------------------------------------------------------------
(* The requests *)

NumSlots == 1

Slots == 1..NumSlots

Url_public    == <<104, 116, 116, 112, 115, 58, 47, 47, 97, 47>>         \* "https://a/"
Url_localhost == <<104, 116, 116, 112, 58, 47, 47, 108, 111, 99, 97, 108,
                   104, 111, 115, 116, 47>>                              \* "http://localhost/"
Url_ftp       == <<102, 116, 112, 58, 47, 47, 97, 47>>                   \* "ftp://a/"
Url_badPct    == <<104, 116, 116, 112, 115, 58, 47, 47, 97, 47, 49, 48, 48, 37>>  \* "https://a/100%"
Url_escaped   == <<104, 116, 116, 112, 115, 58, 47, 47, 97, 47, 120, 37, 50, 70, 121>>                                       \* "https://a/x%2Fy"

Absent == [kind |-> "absent", text |-> <<>>]

Str(text) == [kind |-> "string", text |-> text]

\* A value that is no string (an array from a repeated parameter, a JSON
\* array); text is what it reads as when it is coerced to a string.
NonString(text) == [kind |-> "other", text |-> text]

\* req.query / req.body of a request to /api/proxy: url and encoded.
ProxyInputs ==
    { [url |-> Absent, encoded |-> FALSE],
      [url |-> Str(Url_public), encoded |-> FALSE],
      [url |-> Str(Url_localhost), encoded |-> FALSE],
      [url |-> Str(Url_ftp), encoded |-> FALSE],
      [url |-> Str(encodeUrl(Url_public)), encoded |-> TRUE],
      [url |-> Str(encodeUrl(Url_localhost)), encoded |-> TRUE],
      [url |-> Str(<<33, 33, 33>>), encoded |-> TRUE],                   \* "!!!"
      [url |-> NonString(Url_public), encoded |-> FALSE],
      [url |-> NonString(Url_public), encoded |-> TRUE] }

\* req.query.url for the query string url=raw: Express's query parser (qs)
\* reads '+' as a space and decodes the percent-escapes, and keeps the text
\* as it is when it cannot be decoded.
queryValue(raw) ==
    LET spaced  == replaceAll(raw, 43, 32)
        decoded == decodeURIComponent(spaced)
    IN  IF decoded.ok THEN decoded.value ELSE spaced

\* Absolute URLs of references the Rewrite Engine has rewritten.
RelayedUrls == {Url_public, Url_badPct, Url_escaped}

\* req.query of a request to /api/resource, as Express has decoded it: no
\* url, URLs a client wrote itself, and the url parameter of the
\* resource-endpoint URLs of RelayedUrls.
ResourceInputs ==
    { [url |-> Absent, encoded |-> FALSE],
      [url |-> Str(Url_localhost), encoded |-> FALSE],
      [url |-> Str(Url_ftp), encoded |-> FALSE] }
    \cup { [url |-> Str(queryValue(encodeURIComponent(a))), encoded |-> FALSE] :
               a \in RelayedUrls }

IdleSlot ==
    [pc |-> "idle", endpoint |-> "", input |-> [url |-> Absent, encoded |-> FALSE],
     targetUrl |-> <<>>, target |-> "", response |-> NoOutcome, body |-> NoOutcome,
     headers |-> {}, fetches |-> 0, sent |-> <<>>]

Init ==
    /\ codec = CodecOff
    /\ reqs = [i \in Slots |-> IdleSlot]
    /\ outbound = {}
    /\ page = PageOff
    /\ client = ClientOff

\* The header lines a browser sends with a request to /api/proxy (a fetch of
\* the page's script) and to /api/resource (the load of a subresource), as
\* req.get reads them: names in lower case.
clientHeaders(endpoint) ==
    {<<<<117, 115, 101, 114, 45, 97, 103, 101, 110, 116>>, <<77, 111, 122, 105, 108, 108, 97, 47, 53, 46, 48>>>>, <<<<99, 111, 111, 107, 105, 101>>, <<115, 105, 100, 61, 49>>>>}
    \cup
    (IF endpoint = "proxy"
     THEN {<<<<97, 99, 99, 101, 112, 116>>, <<97, 112, 112, 108, 105, 99, 97, 116, 105, 111, 110, 47, 106, 115, 111, 110>>>>, <<<<97, 99, 99, 101, 112, 116, 45, 101, 110, 99, 111, 100, 105, 110, 103>>, <<103, 122, 105, 112>>>>,
           <<<<97, 117, 116, 104, 111, 114, 105, 122, 97, 116, 105, 111, 110>>, <<66, 101, 97, 114, 101, 114, 32, 116>>>>}
     ELSE {<<<<97, 99, 99, 101, 112, 116>>, <<105, 109, 97, 103, 101, 47, 42>>>>, <<<<97, 99, 99, 101, 112, 116, 45, 108, 97, 110, 103, 117, 97, 103, 101>>, <<>>>>,
           <<<<114, 101, 102, 101, 114, 101, 114>>, <<104, 116, 116, 112, 58, 47, 47, 112, 47>>>>})

\* PROXY_CONFIG.userAgent
userAgent == <<80, 114, 97, 99, 116, 105, 99, 101, 80, 114, 111, 98, 108, 101, 109, 115, 47, 49, 46, 48, 32, 40, 69, 100, 117, 99, 97, 116, 105, 111, 110, 97, 108, 32, 84, 111, 111, 108, 41>>

\* The mutant of buildProxyHeaders that forwards every header of the client.
buildProxyHeadersAll(req) ==
    {<<<<85, 115, 101, 114, 45, 65, 103, 101, 110, 116>>, userAgent>>} \cup req.headers

\* buildProxyHeaders(req): the headers object, a set of <<key, value>>; its
\* keys are case-sensitive, so a forwarded "accept" stands beside "Accept".
buildProxyHeaders(req) ==
    LET forwardHeaders == {<<97, 99, 99, 101, 112, 116>>, <<97, 99, 99, 101, 112, 116, 45, 108, 97, 110, 103, 117, 97, 103, 101>>, <<97, 99, 99, 101, 112, 116, 45, 101, 110, 99, 111, 100, 105, 110, 103>>}
    IN  {<<<<85, 115, 101, 114, 45, 65, 103, 101, 110, 116>>, userAgent>>,
         <<<<65, 99, 99, 101, 112, 116>>, <<116, 101, 120, 116, 47, 104, 116, 109, 108, 44, 97, 112, 112, 108, 105, 99, 97, 116, 105, 111, 110, 47, 120, 104, 116, 109, 108, 43, 120, 109, 108, 44, 97, 112, 112, 108, 105, 99, 97, 116, 105, 111, 110, 47, 120, 109, 108, 59, 113, 61, 48, 46, 57, 44, 42, 47, 42, 59, 113, 61, 48, 46, 56>>>>,
         <<<<65, 99, 99, 101, 112, 116, 45, 76, 97, 110, 103, 117, 97, 103, 101>>, <<101, 110, 45, 85, 83, 44, 101, 110, 59, 113, 61, 48, 46, 53>>>>}
        \cup {h \in req.headers : h[1] \in forwardHeaders /\ h[2] # <<>>}

\* buildResponseHeaders(targetResponse): node-fetch hands the names to the
\* callback in lower case.
buildResponseHeaders(targetResponse) ==
    LET stripHeaders == {<<120, 45, 102, 114, 97, 109, 101, 45, 111, 112, 116, 105, 111, 110, 115>>, <<99, 111, 110, 116, 101, 110, 116, 45, 115, 101, 99, 117, 114, 105, 116, 121, 45, 112, 111, 108, 105, 99, 121>>,
                         <<120, 45, 99, 111, 110, 116, 101, 110, 116, 45, 116, 121, 112, 101, 45, 111, 112, 116, 105, 111, 110, 115>>, <<115, 116, 114, 105, 99, 116, 45, 116, 114, 97, 110, 115, 112, 111, 114, 116, 45, 115, 101, 99, 117, 114, 105, 116, 121>>}
    IN  {<<toLowerCase(h[1]), h[2]>> : h \in {g \in targetResponse.headers :
                                                  toLowerCase(g[1]) \notin stripHeaders}}

\* Requests take the slots in the order they arrive.
mayArrive(i) ==
    /\ reqs[i].pc = "idle"
    /\ \A j \in Slots : j < i => reqs[j].pc # "idle"

\* A value is truthy unless it is absent or the empty string.
truthy(v) == v.kind = "other" \/ (v.kind = "string" /\ v.text # <<>>)

-----------------------------------------------------------------------------
(* handleProxyRequest *)

\* Lines 78-92: the target URL of the request, or the error thrown on the way.
proxyTarget(input) ==
    IF input.encoded /\ truthy(input.url) /\ input.url.kind = "other"
    THEN [ok |-> FALSE, error |-> TypeError, url |-> <<>>]
    ELSE LET targetUrl == IF ~truthy(input.url) THEN <<>>
                          ELSE IF input.encoded THEN decodeUrl(input.url.text)
                          ELSE input.url.text
         IN  IF targetUrl = <<>> \/ ~isValidUrl(targetUrl)
             THEN [ok |-> FALSE, error |-> InvalidUrlError, url |-> targetUrl]
             ELSE IF ~fetchAccepts(targetUrl)
             THEN [ok |-> FALSE, error |-> TypeError, url |-> targetUrl]
             ELSE [ok |-> TRUE, error |-> NoError, url |-> targetUrl]

\* A slip of the catch block: every error is wrapped in a NetworkError.
proxyCatchWrapAll(error) == NetworkError(error)

\* The catch block: a FetchError, or any error with a code, becomes a
\* NetworkError; every other error goes to the middleware as it is.
proxyCatch(error) ==
    IF error.name = "FetchError" \/ error.code # "" THEN NetworkError(error)
    ELSE error

\* A slip of the catch block: a fetch that failed is tried once more before
\* the error is reported.
proxyFailRetry(r, error) ==
    IF r.pc = "fetch" /\ r.fetches = 1 /\ error.name = "FetchError"
    THEN [r EXCEPT !.target = "live", !.response = NoOutcome, !.fetches = 2]
    ELSE [r EXCEPT !.pc = "done", !.target = "",
                   !.sent = middleware(proxyCatch(error), r.sent)]

\* The mutant of proxyFail that keeps a count of the requests served in the
\* module and answers differently once one has been served.
proxyFailCounting(r, error) ==
    [r EXCEPT !.pc = "done", !.target = "",
              !.sent = middleware(proxyCatch(IF \E j \in DOMAIN reqs : reqs[j].pc = "done"
                                             THEN ContentError ELSE error), r.sent)]

\* next(err): the error middleware answers.
proxyFail(r, error) ==
    [r EXCEPT !.pc = "done", !.target = "",
              !.sent = middleware(proxyCatch(error), r.sent)]

\* The request arrives; the handler runs to its first await.
ProxyBegin(i) ==
    /\ mayArrive(i)
    /\ \E input \in ProxyInputs, target \in {"live", "silent"} :
          LET t == proxyTarget(input)
              r == [reqs[i] EXCEPT !.endpoint = "proxy", !.input = input,
                                   !.headers = clientHeaders("proxy"),
                                   !.targetUrl = t.url]
          IN  IF ~t.ok
              THEN /\ target = "live"
                   /\ reqs' = [reqs EXCEPT ![i] = proxyFail(r, t.error)]
                   /\ UNCHANGED outbound
              ELSE /\ reqs' = [reqs EXCEPT ![i] = [r EXCEPT !.pc = "fetch",
                                                            !.target = target,
                                                            !.fetches = @ + 1]]
                   /\ outbound' = outbound \cup {[slot |-> i, url |-> t.url,
                                                 method |-> fetchOptions.method,
                                                 headers |-> buildProxyHeaders(r)]}
    /\ UNCHANGED <<codec, page, client>>

\* await fetch(...) settles; the handler runs to await targetResponse.text().
ProxyFetchSettled(i) ==
    /\ reqs[i].pc = "fetch"
    /\ reqs[i].endpoint = "proxy"
    /\ \E o \in fetchOutcomes(reqs[i].targetUrl, fetchOptions, reqs[i].target),
          target \in {"live", "silent"} :
          LET r == [reqs[i] EXCEPT !.response = o]
              contentType == IF o.contentType # <<>> THEN o.contentType
                             ELSE Lit_text_html
          IN  IF o.kind = "error"
              THEN /\ target = "live"
                   /\ reqs' = [reqs EXCEPT ![i] = proxyFail(r, o.error)]
              ELSE IF ~isProcessableContent(contentType)
              THEN /\ target = "live"
                   /\ reqs' = [reqs EXCEPT ![i] = proxyFail(r, ContentError)]
              ELSE reqs' = [reqs EXCEPT ![i] = [r EXCEPT !.pc = "body",
                                                         !.target = target]]
    /\ UNCHANGED <<codec, outbound, page, client>>

\* responseBody.length > PROXY_CONFIG.maxResponseSize: the length of the
\* decoded string, in UTF-16 code units.
bodyTooLarge(body) == body.chars > maxResponseSize

\* A slip of line 123: the requested URL is taken for the final one.
finalUrlRequested(response, targetUrl) == targetUrl

\* const finalUrl = targetResponse.url || targetUrl
finalUrl(response, targetUrl) ==
    IF response.url # <<>> THEN response.url ELSE targetUrl

\* Lines 130-178: the success envelope, as far as the properties read it:
\* metadata.url, metadata.domain and content.  The content of a body that
\* is too long to be held is left out.
successEnvelope(r, body) ==
    LET url         == finalUrl(r.response, r.targetUrl)
        contentType == IF r.response.contentType # <<>> THEN r.response.contentType
                       ELSE Lit_text_html
    IN  [status |-> 200, shape |-> "success", code |-> "",
         url |-> url, domain |-> extractDomain(url),
         headers |-> buildResponseHeaders(r.response),
         content |-> IF Len(body.text) # body.chars THEN <<>>
                     ELSE IF includes(contentType, Lit_text_html)
                     THEN transformHtml(body.text, url, Lit_proxyBase)
                     ELSE body.text]

\* await targetResponse.text() settles; the handler runs to its end.
ProxyBodySettled(i) ==
    /\ reqs[i].pc = "body"
    /\ reqs[i].endpoint = "proxy"
    /\ \E o \in bodyOutcomes(fetchOptions, reqs[i].target) :
          LET r == [reqs[i] EXCEPT !.body = o]
          IN  IF o.kind = "error"
              THEN reqs' = [reqs EXCEPT ![i] = proxyFail(r, o.error)]
              ELSE IF bodyTooLarge(o)
              THEN reqs' = [reqs EXCEPT ![i] = proxyFail(r, ContentError)]
              ELSE reqs' = [reqs EXCEPT ![i] =
                               [r EXCEPT !.pc = "done", !.target = "",
                                         !.sent = Append(r.sent, successEnvelope(r, o))]]
    /\ UNCHANGED <<codec, outbound, page, client>>

-----------------------------------------------------------------------------
(* handleResourceRequest *)

\* Lines 395-413: the URL the relay fetches, or how the request ends before.
\* "missing" is the early return of line 398; "thrown" an exception caught by
\* the catch block (decodeURIComponent's URIError, node-fetch's TypeError).
resourceTarget(input) ==
    IF ~truthy(input.url) THEN [way |-> "missing", url |-> <<>>]
    ELSE LET targetUrl == decodeURIComponent(input.url.text)
         IN  IF ~targetUrl.ok THEN [way |-> "thrown", url |-> <<>>]
             ELSE IF ~fetchAccepts(targetUrl.value)
             THEN [way |-> "thrown", url |-> targetUrl.value]
             ELSE [way |-> "fetch", url |-> targetUrl.value]

\* res.status(status).send(text): a plain-text answer.
sendText(r, status) ==
    [r EXCEPT !.pc = "done", !.target = "",
              !.sent = Append(r.sent, [status |-> status, shape |-> "text", code |-> ""])]

\* The catch block: res.status(500).send('Failed to fetch resource').
resourceFail(r) == sendText(r, 500)

\* The request arrives; the handler runs to its first await.
ResourceBegin(i) ==
    /\ mayArrive(i)
    /\ \E input \in ResourceInputs, target \in {"live", "silent"} :
          LET t == resourceTarget(input)
              r == [reqs[i] EXCEPT !.endpoint = "resource", !.input = input,
                                   !.headers = clientHeaders("resource"),
                                   !.targetUrl = t.url]
          IN  IF t.way = "missing"
              THEN /\ target = "live"
                   /\ reqs' = [reqs EXCEPT ![i] = sendText(r, 400)]
                   /\ UNCHANGED outbound
              ELSE IF t.way = "thrown"
              THEN /\ target = "live"
                   /\ reqs' = [reqs EXCEPT ![i] = resourceFail(r)]
                   /\ UNCHANGED outbound
              ELSE /\ reqs' = [reqs EXCEPT ![i] = [r EXCEPT !.pc = "fetch",
                                                            !.target = target,
                                                            !.fetches = @ + 1]]
                   /\ outbound' = outbound \cup {[slot |-> i, url |-> t.url,
                                                 method |-> fetchOptions.method,
                                                 headers |-> buildProxyHeaders(r)]}
    /\ UNCHANGED <<codec, page, client>>

\* await fetch(...) settles; the handler runs to await text() or buffer().
ResourceFetchSettled(i) ==
    /\ reqs[i].pc = "fetch"
    /\ reqs[i].endpoint = "resource"
    /\ \E o \in fetchOutcomes(reqs[i].targetUrl, fetchOptions, reqs[i].target),
          target \in {"live", "silent"} :
          LET r == [reqs[i] EXCEPT !.response = o]
          IN  IF o.kind = "error"
              THEN /\ target = "live"
                   /\ reqs' = [reqs EXCEPT ![i] = resourceFail(r)]
              ELSE reqs' = [reqs EXCEPT ![i] = [r EXCEPT !.pc = "body",
                                                         !.target = target]]
    /\ UNCHANGED <<codec, outbound, page, client>>

\* The Content-Type header of the answer after res.set('Content-Type', value)
\* and res.send(body).  Express's res.set adds "; charset=utf-8" to a text/*,
\* application/javascript or application/json value without charset, and
\* res.send of a string sets the charset parameter to utf-8 (the value is
\* parsed and written again, its type in lower case); a Buffer leaves the
\* header as res.set made it.
sentContentType(value, asString) ==
    LET semi    == indexOfAny(value, {59})
        type    == IF semi = 0 THEN value ELSE SubSeq(value, 1, semi - 1)
        charset == includes(toLowerCase(value), <<99, 104, 97, 114, 115, 101, 116, 61>>)
        textual == \/ startsWith(type, <<116, 101, 120, 116, 47>>)
                   \/ startsWith(type, <<97, 112, 112, 108, 105, 99, 97, 116, 105, 111, 110, 47, 106, 97, 118, 97, 115, 99, 114, 105, 112, 116>>)
                   \/ startsWith(type, <<97, 112, 112, 108, 105, 99, 97, 116, 105, 111, 110, 47, 106, 115, 111, 110>>)
    IN  IF asString THEN toLowerCase(trim(type)) \o <<59, 32, 99, 104, 97, 114, 115, 101, 116, 61, 117, 116, 102, 45, 56>>
        ELSE IF ~charset /\ textual THEN value \o <<59, 32, 99, 104, 97, 114, 115, 101, 116, 61, 117, 116, 102, 45, 56>>
        ELSE value

\* Lines 433-444: url(...) and @import "..." of a stylesheet, rewritten
\* against base.
rewriteCss(cssContent, base, proxyBase) ==
    rewritePasses(<<"url", "import">>, cssContent, base, proxyBase)

\* Lines 426-455: the content the relay sends.  The content of a body that is
\* too long to be held is left out.
relayContent(r, body) ==
    LET contentType == IF r.response.contentType # <<>> THEN r.response.contentType
                       ELSE Lit_octet
    IN  IF Len(body.text) # body.chars THEN <<>>
        ELSE IF includes(contentType, Lit_text_css)
        THEN rewriteCss(body.text, r.targetUrl, Lit_proxyBase)
        ELSE body.text

\* Lines 415-455: the answer of the relay.
relayAnswer(r, body) ==
    LET contentType == IF r.response.contentType # <<>> THEN r.response.contentType
                       ELSE Lit_octet
        asString    == \/ includes(contentType, Lit_text_css)
                       \/ includes(contentType, <<106, 97, 118, 97, 115, 99, 114, 105, 112, 116>>)
                       \/ includes(contentType, <<116, 101, 120, 116, 47>>)
    IN  [status |-> 200, shape |-> "raw", code |-> "",
         contentType |-> sentContentType(contentType, asString),
         headers |-> {<<<<99, 111, 110, 116, 101, 110, 116, 45, 116, 121, 112, 101>>, sentContentType(contentType, asString)>>,
                      <<<<97, 99, 99, 101, 115, 115, 45, 99, 111, 110, 116, 114, 111, 108, 45, 97, 108, 108, 111, 119, 45, 111, 114, 105, 103, 105, 110>>, <<42>>>>},
         content |-> relayContent(r, body)]

\* await text() / buffer() settles; the handler sends the content.
ResourceBodySettled(i) ==
    /\ reqs[i].pc = "body"
    /\ reqs[i].endpoint = "resource"
    /\ \E o \in bodyOutcomes(fetchOptions, reqs[i].target) :
          LET r == [reqs[i] EXCEPT !.body = o]
          IN  IF o.kind = "error"
              THEN reqs' = [reqs EXCEPT ![i] = resourceFail(r)]
              ELSE reqs' = [reqs EXCEPT ![i] =
                               [r EXCEPT !.pc = "done", !.target = "",
                                         !.sent = Append(r.sent, relayAnswer(r, o))]]
    /\ UNCHANGED <<codec, outbound, page, client>>

-----------------------------------------------------------------------------
(* The server *)

Next ==
    \E i \in Slots :
        \/ ProxyBegin(i)
        \/ ProxyFetchSettled(i)
        \/ ProxyBodySettled(i)
        \/ ResourceBegin(i)
        \/ ResourceFetchSettled(i)
        \/ ResourceBodySettled(i)

Spec == Init /\ [][Next]_vars

\* Node's event loop runs every callback that is ready: a promise that can
\* settle (by the target's answer or by the timer) does settle.
FairSpec ==
    /\ Spec
    /\ \A i \in Slots :
          /\ WF_vars(ProxyFetchSettled(i))
          /\ WF_vars(ProxyBodySettled(i))
          /\ WF_vars(ResourceFetchSettled(i))
          /\ WF_vars(ResourceBodySettled(i))

\* Two requests in flight at once: Node runs each handler to its next await
\* and takes up whichever promise settles next.
PairSlots == 1..(NumSlots + 1)

PairInit ==
    /\ codec = CodecOff
    /\ reqs = [i \in PairSlots |-> IdleSlot]
    /\ outbound = {}
    /\ page = PageOff
    /\ client = ClientOff

PairNext ==
    \E i \in PairSlots :
        \/ ProxyBegin(i)
        \/ ProxyFetchSettled(i)
        \/ ProxyBodySettled(i)
        \/ ResourceBegin(i)
        \/ ResourceFetchSettled(i)
        \/ ResourceBodySettled(i)

PairSpec == PairInit /\ [][PairNext]_vars

-----------------------------------------------------------------------------
(* Properties *)

\* The only response of a finished request.
answer(r) == r.sent[1]

errorEnvelope(status, code) == [status |-> status, shape |-> "error", code |-> code]

isProxy(r) == r.endpoint = "proxy"

isResource(r) == r.endpoint = "resource"

\* The request's outbound call was rejected or its body could not be read.
fetchFailed(r) ==
    /\ r.pc = "done"
    /\ \/ r.response.kind = "error"
       \/ r.body.kind = "error"

\* The error the outbound call failed with.
fetchError(r) ==
    IF r.response.kind = "error" THEN r.response.error ELSE r.body.error

\* C1: every URL the server has issued an outbound fetch for, through
\* /api/proxy or /api/resource, passes isValidUrl.
C1_FetchedUrlsAreValid == \A f \in outbound : isValidUrl(f.url)

\* An absolute http or https URL, as built from its parts, that is a
\* well-formed Unicode string.
isAbsoluteHttpUrl(u) ==
    /\ u.kind = "hier"
    /\ toLowerCase(u.scheme) \in {Lit_http, Lit_https}
    /\ isWellFormed(urlText(u))

\* C2: for every absolute http(s) URL u, with query strings, fragments and
\* non-ASCII characters, decodeUrl(encodeUrl(u)) is exactly u.
C2_RoundTrip ==
    (codec.pc = "decoded" /\ isAbsoluteHttpUrl(codec.input))
        => codec.decoded = codec.url

\* C2's case: a URL with a query and a non-ASCII character went through
\* encodeUrl and decodeUrl, and its token holds a URL-safe replacement.
C2_Witness ==
    /\ codec.pc = "decoded"
    /\ isAbsoluteHttpUrl(codec.input)
    /\ \E i \in 1..Len(codec.url) : codec.url[i] > 127
    /\ \E i \in 1..Len(codec.url) : codec.url[i] = 63
    /\ \E i \in 1..Len(codec.encoded) : codec.encoded[i] \in {45, 95}

\* What C3 says isValidUrl returns, read off the parts the URL was built from.
claimedValid(u) ==
    /\ u.kind = "hier"
    /\ toLowerCase(u.scheme) \in {Lit_http, Lit_https}
    /\ toLowerCase(u.host.name) \notin
           {Lit_localhost, Lit_127_0_0_1, Lit_0_0_0_0, Lit_v6loop}
    /\ ~startsWith(u.host.name, Lit_10)
    /\ ~startsWith(u.host.name, Lit_172_16)
    /\ ~startsWith(u.host.name, Lit_192_168)

\* C3: isValidUrl is false for an empty or unparsable URL, for a scheme other
\* than http/https, for the hosts localhost, 127.0.0.1, 0.0.0.0 and ::1, and
\* for host names starting with 10., 172.16. or 192.168.; true otherwise.
C3_IsValidUrlAsClaimed ==
    codec.pc # "start" => (codec.valid = claimedValid(codec.input))

\* What C4 is about: the request has no url, or its url (decoded when
\* encoded is set) fails isValidUrl.
urlMissingOrInvalid(input) ==
    \/ ~truthy(input.url)
    \/ /\ input.url.kind = "string"
       /\ ~isValidUrl(IF input.encoded THEN decodeUrl(input.url.text)
                      ELSE input.url.text)
    \/ /\ input.url.kind = "other"
       /\ ~input.encoded
       /\ ~isValidUrl(input.url.text)

\* C4: a /api/proxy request without url, or whose url fails validation, is
\* answered 400 INVALID_URL and no outbound fetch is issued for it.
C4_InvalidUrlIs400 ==
    \A i \in Slots :
        (isProxy(reqs[i]) /\ urlMissingOrInvalid(reqs[i].input))
            => /\ reqs[i].pc = "done"
               /\ reqs[i].sent = <<errorEnvelope(400, "INVALID_URL")>>
               /\ ~\E f \in outbound : f.slot = i

\* C4's case: an encoded url that decodes to a blocked host was answered.
C4_Witness ==
    \E i \in Slots :
        /\ isProxy(reqs[i])
        /\ reqs[i].input.encoded
        /\ reqs[i].targetUrl = Url_localhost
        /\ reqs[i].sent = <<errorEnvelope(400, "INVALID_URL")>>

\* The code C5 names for a transport failure.
claimedTransportCode(error) ==
    CASE error.code = "ENOTFOUND"        -> "DNS_LOOKUP_FAILED"
      [] error.code = "ECONNREFUSED"     -> "CONNECTION_REFUSED"
      [] error.code = "ECONNRESET"       -> "CONNECTION_RESET"
      [] error.code = "CERT_HAS_EXPIRED" -> "SSL_CERT_EXPIRED"
      [] OTHER                           -> "NETWORK_ERROR"

\* The outbound call failed with a socket or TLS error (a FetchError of type
\* 'system').
transportFailed(r) == fetchFailed(r) /\ fetchError(r).code \in SystemCodes

\* C5 as stated: a transport failure of /api/proxy is answered 502 with
\* DNS_LOOKUP_FAILED, CONNECTION_REFUSED, CONNECTION_RESET or SSL_CERT_EXPIRED
\* for the four named failures and NETWORK_ERROR for any other.
C5_AsStated ==
    \A i \in Slots :
        (isProxy(reqs[i]) /\ transportFailed(reqs[i]))
            => reqs[i].sent =
                   <<errorEnvelope(502, claimedTransportCode(fetchError(reqs[i])))>>

\* C5 amended: as stated, except that a connection that timed out at the
\* socket (ETIMEDOUT) is answered with CONNECTION_TIMEOUT; any transport
\* failure other than these five gives NETWORK_ERROR.
C5_TransportErrorCodes ==
    \A i \in Slots :
        (isProxy(reqs[i]) /\ transportFailed(reqs[i]))
            => reqs[i].sent =
                   <<errorEnvelope(502,
                        IF fetchError(reqs[i]).code = "ETIMEDOUT"
                        THEN "CONNECTION_TIMEOUT"
                        ELSE claimedTransportCode(fetchError(reqs[i])))>>

\* C5's case: the target's certificate had expired and the request was answered.
C5_Witness ==
    \E i \in Slots :
        /\ isProxy(reqs[i])
        /\ transportFailed(reqs[i])
        /\ fetchError(reqs[i]).code = "CERT_HAS_EXPIRED"
        /\ answer(reqs[i]).code = "SSL_CERT_EXPIRED"

\* The outbound call ran into the time budget of PROXY_CONFIG.timeout.
timedOut(r) ==
    /\ fetchFailed(r)
    /\ fetchError(r) \in {requestTimeout, bodyTimeout}

\* C6: a /api/proxy request whose outbound fetch exceeds the time budget is
\* answered 502 CONNECTION_TIMEOUT, not NETWORK_ERROR.
C6_TimeoutIsConnectionTimeout ==
    \A i \in Slots :
        (isProxy(reqs[i]) /\ timedOut(reqs[i]))
            => reqs[i].sent = <<errorEnvelope(502, "CONNECTION_TIMEOUT")>>

\* C7: every /api/proxy request that has started completes with exactly one
\* response, also when the target never answers; until then it has sent none.
C7_ExactlyOneResponse ==
    \A i \in Slots :
        /\ [](isProxy(reqs[i]) =>
                Len(reqs[i].sent) = (IF reqs[i].pc = "done" THEN 1 ELSE 0))
        /\ (isProxy(reqs[i]) /\ reqs[i].pc \in {"fetch", "body"})
               ~> (reqs[i].pc = "done" /\ Len(reqs[i].sent) = 1)

\* C7's case: the target never answered and the request was answered all the same.
C7_Witness ==
    \E i \in Slots :
        /\ isProxy(reqs[i])
        /\ reqs[i].pc = "done"
        /\ reqs[i].response = [kind |-> "error", error |-> requestTimeout]
        /\ Len(reqs[i].sent) = 1

\* The Content-Type the proxy handler goes by: the header, or text/html.
effectiveContentType(r) ==
    IF r.response.contentType # <<>> THEN r.response.contentType ELSE Lit_text_html

\* The upstream answer is outside the content policy: its Content-Type is
\* not on the allow-list, or its body is larger than the ceiling in bytes.
outsideContentPolicy(r) ==
    /\ r.pc = "done"
    /\ r.response.kind = "response"
    /\ \/ ~isProcessableContent(effectiveContentType(r))
       \/ (r.body.kind = "text" /\ r.body.bytes > maxResponseSize)

\* C8: an upstream answer outside the content policy is answered 415
\* UNSUPPORTED_CONTENT and never with a success envelope.
C8_ContentPolicyIs415 ==
    \A i \in Slots :
        (isProxy(reqs[i]) /\ outsideContentPolicy(reqs[i]))
            => reqs[i].sent = <<errorEnvelope(415, "UNSUPPORTED_CONTENT")>>

\* C9: a failed /api/proxy request gets the error envelope with 400 exactly
\* when the url was missing or invalid, and otherwise 415 for the content
\* policy and 502 for every other failure.
C9_StatusFromTable ==
    \A i \in Slots :
        (isProxy(reqs[i]) /\ reqs[i].pc = "done" /\ answer(reqs[i]).shape # "success")
            => /\ answer(reqs[i]).shape = "error"
               /\ answer(reqs[i]).status \in {400, 415, 502}
               /\ (answer(reqs[i]).status = 400) <=> (reqs[i].response.kind = "none")
               /\ (answer(reqs[i]).status = 415) => outsideContentPolicy(reqs[i])
               /\ fetchFailed(reqs[i]) => answer(reqs[i]).status = 502

\* C10: a failure of /api/resource to fetch its target is answered with the
\* error envelope and status 502.
C10_ResourceFailureClassified ==
    \A i \in Slots :
        (isResource(reqs[i]) /\ fetchFailed(reqs[i]))
            => /\ answer(reqs[i]).shape = "error"
               /\ answer(reqs[i]).status = 502

\* C11: a request issues at most one outbound fetch attempt (one call of
\* fetch; the redirects that call follows belong to it), and a request whose
\* attempt failed is answered with the error and fetches nothing more.
C11_SingleAttempt ==
    \A i \in Slots :
        /\ reqs[i].fetches <= 1
        /\ Cardinality({f \in outbound : f.slot = i}) <= 1
        /\ (reqs[i].response.kind = "error") => (reqs[i].pc = "done" /\ Len(reqs[i].sent) = 1)

\* C11's case: a /api/proxy request whose only attempt failed and was reported.
C11_Witness ==
    \E i \in Slots :
        /\ isProxy(reqs[i])
        /\ reqs[i].response.kind = "error"
        /\ reqs[i].fetches = 1
        /\ answer(reqs[i]).status = 502

\* The resource-endpoint URL of the absolute URL a.
endpointUrl(proxyBase, a) == proxyBase \o <<47, 97, 112, 105, 47, 114, 101, 115, 111, 117, 114, 99, 101, 63, 117, 114, 108, 61>> \o encodeURIComponent(a)

\* The target redirected: the response came from another URL than the one
\* requested.
redirected(r) ==
    /\ r.response.kind = "response"
    /\ r.response.url # r.targetUrl

\* The request was answered with the success envelope of an HTML document
\* whose text is held.
rewrittenHtml(r) ==
    /\ r.pc = "done"
    /\ answer(r).shape = "success"
    /\ includes(effectiveContentType(r), Lit_text_html)
    /\ Len(r.body.text) = r.body.chars

\* C12: after a redirect the success envelope of /api/proxy has the final URL
\* in metadata.url and its hostname in metadata.domain, and the document is
\* rewritten against the final URL: the base tag names it, and the relative
\* reference a.png is proxied as final-url + a.png.
C12_FinalUrlReported ==
    \A i \in Slots :
        (isProxy(reqs[i]) /\ reqs[i].pc = "done" /\ answer(reqs[i]).shape = "success"
         /\ redirected(reqs[i]))
            => /\ answer(reqs[i]).url = Url_moved
               /\ answer(reqs[i]).domain = <<98>>
               /\ rewrittenHtml(reqs[i])
                     => /\ includes(answer(reqs[i]).content, baseTag(Url_moved))
                        /\ (reqs[i].body.text = <<60, 105, 109, 103, 32, 115, 114, 99, 61, 34, 97, 46, 112, 110, 103, 34, 62>>)
                              => includes(answer(reqs[i]).content,
                                          endpointUrl(Lit_proxyBase, Url_moved \o <<97, 46, 112, 110, 103>>))

\* C12's case: a redirected request answered with a rewritten document.
C12_Witness ==
    \E i \in Slots :
        /\ isProxy(reqs[i])
        /\ redirected(reqs[i])
        /\ rewrittenHtml(reqs[i])
        /\ reqs[i].targetUrl = Url_public
        /\ reqs[i].body.text = <<60, 105, 109, 103, 32, 115, 114, 99, 61, 34, 97, 46, 112, 110, 103, 34, 62>>

\* C13: when the resource-endpoint URL made for the absolute URL a is
\* requested, the relay fetches a.
C13_RelayFetchesReference ==
    \A i \in Slots : \A a \in RelayedUrls :
        (/\ isResource(reqs[i])
         /\ reqs[i].pc # "idle"
         /\ reqs[i].input.url = Str(queryValue(encodeURIComponent(a))))
            => \E f \in outbound :
                  /\ f.slot = i
                  /\ URLHref(URLParse(f.url, NoURL)) = a

\* The relay answered with a stylesheet whose text is held.
relayedCss(r) ==
    /\ isResource(r)
    /\ r.pc = "done"
    /\ answer(r).shape = "raw"
    /\ includes(r.response.contentType, Lit_text_css)
    /\ Len(r.body.text) = r.body.chars

\* C15: the relay answers a text/css resource with its url(...) and
\* @import "..." references rewritten against the URL the stylesheet was
\* finally fetched from, under the upstream Content-Type.
C15_CssRewrittenAgainstFinalUrl ==
    \A i \in Slots :
        relayedCss(reqs[i])
            => /\ answer(reqs[i]).content =
                     rewriteCss(reqs[i].body.text, reqs[i].response.url, Lit_proxyBase)
               /\ answer(reqs[i]).contentType = reqs[i].response.contentType

\* The absolute URL a reference resolves to against the rewrite base, as C14
\* and C17 read it: //host/path is https://host/path, any other reference is
\* resolved as the URL standard resolves it.
resolvesTo(reference, baseUrl) ==
    IF startsWith(trim(reference), <<47, 47>>)
    THEN [ok |-> TRUE, value |-> <<104, 116, 116, 112, 115, 58>> \o trim(reference)]
    ELSE LET parsed == URLParse(reference, URLParse(baseUrl, NoURL))
         IN  [ok |-> parsed.ok, value |-> URLHref(parsed)]

\* C14: a reference that starts with data:, javascript:, mailto:, tel: or #,
\* or that does not resolve to an absolute URL, is left as it was: the element
\* that holds it is in the output as it was in the document.
C14_SkippedReferencesUnchanged ==
    (/\ page.pc \in {"rewritten", "assigned"}
     /\ \/ \E p \in SkippedPrefixes : startsWith(page.reference, p)
        \/ ~resolvesTo(page.reference, page.baseUrl).ok)
        => includes(page.content,
                    page.element.open \o page.reference \o page.element.close)

\* C17: a src, href or action attribute, on any element, whose value resolves
\* to the absolute URL a holds the resource-endpoint URL of a in the output.
C17_AttributesRewritten ==
    (/\ page.pc \in {"rewritten", "assigned"}
     /\ page.element.pass \in {"src", "href", "action"}
     /\ ~\E p \in SkippedPrefixes : startsWith(page.reference, p)
     /\ resolvesTo(page.reference, page.baseUrl).ok)
        => includes(page.content,
                    page.element.open
                    \o endpointUrl(page.proxyBase,
                                   resolvesTo(page.reference, page.baseUrl).value)
                    \o page.element.close)

\* C18: no pass encodes what an earlier pass has rewritten: the url parameter
\* of a resource-endpoint URL of the output never holds a resource-endpoint
\* URL (the documents do not refer to the proxy).
C18_NoDoubleEncoding ==
    page.pc \in {"rewritten", "assigned"}
        => ~includes(page.content, encodeURIComponent(<<47, 97, 112, 105, 47, 114, 101, 115, 111, 117, 114, 99, 101, 63, 117, 114, 108, 61>>))

\* The number of places where s holds sub.
occurrences(s, sub) ==
    Cardinality({i \in 1..(Len(s) - Len(sub) + 1) : SubSeq(s, i, i + Len(sub) - 1) = sub})

\* C19: the output holds one <base href=final-url> tag and one injected
\* <script> block, directly after the opening <head> tag when the document
\* has a <head> element and at the very start of the document when it has none.
C19_OneBaseTagOneScript ==
    page.pc \in {"rewritten", "assigned"}
        => LET tag == baseTag(page.baseUrl)
           IN  /\ occurrences(page.content, tag) = 1
               /\ occurrences(page.content, <<99, 111, 110, 115, 116, 32, 80, 82, 79, 88, 89, 95, 66, 65, 83, 69>>) = 1
               /\ IF page.wrapper.name = "head"
                  THEN startsWith(page.content, <<60, 104, 116, 109, 108, 62, 60, 104, 101, 97, 100, 62>> \o <<10>> \o tag \o <<10, 10>>
                                                \o <<60, 115, 99, 114, 105, 112, 116, 62, 40, 102, 117, 110, 99, 116, 105, 111, 110>>)
                  ELSE startsWith(page.content, tag \o <<10, 10>> \o <<60, 115, 99, 114, 105, 112, 116, 62, 40, 102, 117, 110, 99, 116, 105, 111, 110>>)

\* C20: a URL page script assigns through a src/href property setter or
\* through setAttribute is given to the browser as its resource-endpoint URL,
\* and as it is when it holds the proxy base already.
C20_RuntimeAssignmentsRewritten ==
    (/\ page.pc = "assigned"
     /\ page.channel \notin {"fetch(string)", "fetch(Request)", "xhr.open"})
        => page.given =
              IF includes(page.assigned, page.proxyBase) THEN page.assigned
              ELSE endpointUrl(page.proxyBase,
                               resolvesTo(page.assigned, page.baseUrl).value)

\* A token decodeUrl is to refuse: it holds a character outside the URL-safe
\* and the standard Base64 alphabets, or its bytes are no UTF-8.
malformedToken(t) ==
    \/ \E i \in 1..Len(t) : unbase64(t[i]) < 0
    \/ utf8Encode(utf8Decode(fromBase64(t))) # fromBase64(t)

\* C16: POST /api/decode answers a malformed token with HTTP 400; decodeUrl
\* returns no string for it.
C16_MalformedTokenIs400 ==
    (codec.pc = "answered" /\ malformedToken(codec.encoded)) => codec.status = 400

\* A resource the relay has answered from a body short enough to be held.
relayed(r) ==
    /\ isResource(r)
    /\ r.pc = "done"
    /\ answer(r).shape = "raw"
    /\ Len(r.body.text) = r.body.chars

\* C21: the relay answers a text/html resource with the document the Rewrite
\* Engine makes of it, and a resource that is neither HTML nor a stylesheet
\* with its content as it came.
C21_HtmlResourceRewritten ==
    \A i \in Slots :
        relayed(reqs[i])
            => IF includes(reqs[i].response.contentType, Lit_text_html)
               THEN answer(reqs[i]).content =
                        transformHtml(reqs[i].body.text, reqs[i].response.url, Lit_proxyBase)
               ELSE includes(reqs[i].response.contentType, Lit_text_css)
                    \/ answer(reqs[i]).content = reqs[i].body.text

\* The header lines of the upstream answer that are to be passed on, names in
\* lower case: all but the four of the strip-list.
passedOn(response) ==
    {<<toLowerCase(h[1]), h[2]>> :
        h \in {g \in response.headers :
                  toLowerCase(g[1]) \notin {<<120, 45, 102, 114, 97, 109, 101, 45, 111, 112, 116, 105, 111, 110, 115>>, <<99, 111, 110, 116, 101, 110, 116, 45, 115, 101, 99, 117, 114, 105, 116, 121, 45, 112, 111, 108, 105, 99, 121>>,
                                            <<120, 45, 99, 111, 110, 116, 101, 110, 116, 45, 116, 121, 112, 101, 45, 111, 112, 116, 105, 111, 110, 115>>,
                                            <<115, 116, 114, 105, 99, 116, 45, 116, 114, 97, 110, 115, 112, 111, 114, 116, 45, 115, 101, 99, 117, 114, 105, 116, 121>>}}}

\* The names of the header lines hs, in lower case.
namesOf(hs) == {toLowerCase(h[1]) : h \in hs}

\* C22: the headers field of a /api/proxy envelope is the upstream header
\* lines minus the strip-list, and the header lines of a /api/resource answer
\* hold every upstream line outside the strip-list with its value and none of
\* the strip-list.
C22_UpstreamHeadersPassedOn ==
    \A i \in Slots :
        /\ (isProxy(reqs[i]) /\ reqs[i].pc = "done" /\ answer(reqs[i]).shape = "success")
              => answer(reqs[i]).headers = passedOn(reqs[i].response)
        /\ (isResource(reqs[i]) /\ reqs[i].pc = "done" /\ answer(reqs[i]).shape = "raw")
              => /\ passedOn(reqs[i].response) \subseteq answer(reqs[i]).headers
                 /\ namesOf(answer(reqs[i]).headers)
                       \cap (namesOf(reqs[i].response.headers)
                                \ namesOf(passedOn(reqs[i].response))) = {}

\* C23: every outbound request is a GET whose header names are among
\* User-Agent, Accept, Accept-Language and Accept-Encoding, and whose
\* User-Agent is the configured one.
C23_OutboundHeadersAllowListed ==
    \A f \in outbound :
        /\ f.method = "GET"
        /\ namesOf(f.headers) \subseteq {<<117, 115, 101, 114, 45, 97, 103, 101, 110, 116>>, <<97, 99, 99, 101, 112, 116>>, <<97, 99, 99, 101, 112, 116, 45, 108, 97, 110, 103, 117, 97, 103, 101>>,
                                         <<97, 99, 99, 101, 112, 116, 45, 101, 110, 99, 111, 100, 105, 110, 103>>}
        /\ \A h \in f.headers : toLowerCase(h[1]) = <<117, 115, 101, 114, 45, 97, 103, 101, 110, 116>> => h[2] = userAgent

\* A request whose client sent a cookie, its own User-Agent and an Accept
\* header has been fetched, the Accept header forwarded.
C23_Witness ==
    \E f \in outbound :
        /\ <<99, 111, 111, 107, 105, 101>> \in namesOf(reqs[f.slot].headers)
        /\ <<117, 115, 101, 114, 45, 97, 103, 101, 110, 116>> \in namesOf(reqs[f.slot].headers)
        /\ \E h \in reqs[f.slot].headers : h[1] = <<97, 99, 99, 101, 112, 116>> /\ h \in f.headers

\* What a request's answer may depend on: its endpoint, its input, its
\* headers, and what its own target answered.
ownData(r) == <<r.endpoint, r.input, r.headers, r.response, r.body>>

-----------------------------------------------------------------------------
(***************************************************************************)
(* Service worker (src/sw.js, the worker of lines 186-458).  The worker    *)
(* keeps the Scramjet instance, the flag scramjetConfigLoaded and a cache; *)
(* its message listener and its fetch handler are async functions, so a    *)
(* message or a fetch event can be handled while an earlier handler waits  *)
(* at an await.  client.received logs the init_complete and                *)
(* invalidate_config messages in the order of their arrival, each with the *)
(* await its handler is at.                                                *)
(***************************************************************************)
MaxMessages == 3

MaxFetches == 2

\* the URLs of the fetch events; the worker's origin is https://a.io
SwUrls ==
    { <<104, 116, 116, 112, 115, 58, 47, 47, 97, 46, 105, 111, 47>>, <<104, 116, 116, 112, 115, 58, 47, 47, 97, 46, 105, 111, 47, 97, 112, 112, 46, 106, 115>>, <<104, 116, 116, 112, 115, 58, 47, 47, 97, 46, 105, 111, 47, 108, 105, 98, 47, 115, 99, 114, 97, 109, 106, 101, 116, 47, 115, 46, 106, 115>>,
      <<104, 116, 116, 112, 115, 58, 47, 47, 97, 46, 105, 111, 47, 115, 101, 114, 118, 105, 99, 101, 47, 104, 116, 116, 112, 58, 98, 46, 105, 111, 47>>, <<104, 116, 116, 112, 115, 58, 47, 47, 97, 46, 105, 111, 47, 115, 101, 114, 118, 105, 99, 101, 47, 104, 116, 116, 112, 58, 98, 46, 105, 111, 47, 120, 46, 106, 115>>,
      <<104, 116, 116, 112, 115, 58, 47, 47, 98, 46, 105, 111, 47, 112>>, <<104, 116, 116, 112, 115, 58, 47, 47, 97, 46, 105, 111, 46, 98, 46, 105, 111, 47, 112>> }

\* STATIC_CACHE_PATTERNS.some(pattern => pattern.test(url))
isStaticResource(url) ==
    \E suffix \in { <<46, 99, 115, 115>>, <<46, 106, 115>>, <<46, 119, 111, 102, 102>>, <<46, 119, 111, 102, 102, 50>>, <<46, 112, 110, 103>>, <<46, 106, 112, 103>>, <<46, 115, 118, 103>>, <<46, 105, 99, 111>>, <<46, 119, 97, 115, 109>> } :
        /\ Len(url) >= Len(suffix)
        /\ SubSeq(url, Len(url) - Len(suffix) + 1, Len(url)) = suffix

\* the worker after its script ran: scramjet = null, scramjetConfigLoaded = false
SwStart(bundle) ==
    [part |-> "sw", scramjetBundle |-> bundle,
     scramjet |-> [made |-> FALSE, config |-> ""], scramjetConfigLoaded |-> FALSE,
     skippedWaiting |-> FALSE, WASM |-> FALSE, received |-> <<>>, cache |-> {},
     fetches |-> 0, event |-> [url |-> <<>>, stage |-> "none", routed |-> FALSE, answer |-> ""]]

\* self.addEventListener('message', ...) up to its first await
onMessage(data) ==
    /\ client.part = "sw"
    /\ Len(client.received) < MaxMessages
    /\ client' =
         IF data.type = "skipWaiting" THEN [client EXCEPT !.skippedWaiting = TRUE]
         ELSE IF data.type = "init_complete" THEN
             LET scramjet == IF ~client.scramjet.made /\ client.scramjetBundle
                                THEN [made |-> TRUE, config |-> data.config]
                             ELSE IF client.scramjet.made /\ data.config # ""
                                THEN [client.scramjet EXCEPT !.config = data.config]
                             ELSE client.scramjet
                 \* ensureConfigLoaded awaits loadConfig if (!scramjetConfigLoaded && scramjet)
                 stage(made) == IF ~client.scramjetConfigLoaded /\ made THEN "loadConfig" ELSE "wasm"
             IN [client EXCEPT !.scramjet = scramjet,
                               !.received = Append(@, [type |-> data.type, stage |-> stage(scramjet.made)])]
         ELSE IF data.type = "invalidate_config" THEN
             [client EXCEPT !.scramjetConfigLoaded = FALSE,
                            !.received = Append(@, [type |-> data.type, stage |-> "done"])]
         ELSE client
    /\ UNCHANGED <<codec, reqs, outbound, page>>

\* ensureConfigLoaded after await scramjet.loadConfig(), for the handler of message m
ensureConfigLoaded(m, loaded) ==
    /\ client.part = "sw"
    /\ m \in DOMAIN client.received
    /\ client.received[m].stage = "loadConfig"
    /\ client' = [client EXCEPT !.scramjetConfigLoaded = IF loaded THEN TRUE ELSE @,
                                !.received[m].stage = "wasm"]
    /\ UNCHANGED <<codec, reqs, outbound, page>>

\* the listener after the WASM fetch settled: self.WASM = bufferToBase64(wasmBuffer)
wasmLoaded(m, ok) ==
    /\ client.part = "sw"
    /\ m \in DOMAIN client.received
    /\ client.received[m].stage = "wasm"
    /\ client' = [client EXCEPT !.WASM = IF ok THEN TRUE ELSE @,
                                !.received[m].stage = "done"]
    /\ UNCHANGED <<codec, reqs, outbound, page>>

\* handleRequest(event) up to its first await
handleRequest(url) ==
    /\ client.part = "sw"
    /\ client.event.stage \in {"none", "answered"}
    /\ client.fetches < MaxFetches
    /\ LET origin == <<104, 116, 116, 112, 115, 58, 47, 47, 97, 46, 105, 111>>
           isProxied == includes(url, <<47, 115, 101, 114, 118, 105, 99, 101, 47>>) /\ (includes(url, <<104, 116, 116, 112, 37, 51, 65>>) \/ includes(url, <<104, 116, 116, 112, 58>>))
           isExternal == startsWith(url, <<104, 116, 116, 112>>) /\ ~startsWith(url, origin)
           \* scramjet.route(event): the URL is under the configured prefix (js/scramjet.config.js)
           route == startsWith(url, origin \o <<47, 115, 101, 114, 118, 105, 99, 101, 47>>)
           answered(kind) == [url |-> url, stage |-> "answered", routed |-> FALSE, answer |-> kind]
           waiting(stage, routed) == [url |-> url, stage |-> stage, routed |-> routed, answer |-> ""]
       IN client' = [client EXCEPT !.fetches = @ + 1, !.event =
            IF ~client.scramjet.made \/ ~client.scramjetConfigLoaded
               THEN IF isProxied \/ isExternal THEN answered("503") ELSE answered("network")
            ELSE IF includes(url, <<47, 108, 105, 98, 47, 115, 99, 114, 97, 109, 106, 101, 116, 47>>) \/ includes(url, <<115, 99, 114, 97, 109, 106, 101, 116, 46, 119, 97, 115, 109>>)
               THEN answered("network")
            ELSE IF isStaticResource(url) THEN waiting("cacheMatch", route)
            ELSE IF route THEN waiting("scramjetFetch", TRUE)
            ELSE waiting("fetch", FALSE)]
    /\ UNCHANGED <<codec, reqs, outbound, page>>

\* handleRequest(event) after an await settled: cache.match, scramjet.fetch or fetch
handleRequestResumed(outcome) ==
    /\ client.part = "sw"
    /\ client.event.stage \in {"cacheMatch", "scramjetFetch", "fetch"}
    /\ LET e == client.event
           put == IF isStaticResource(e.url) /\ outcome = "ok" THEN client.cache \cup {e.url} ELSE client.cache
       IN IF e.stage = "cacheMatch"
             THEN /\ outcome = "ok"
                  /\ client' = [client EXCEPT !.event =
                        IF e.url \in client.cache THEN [e EXCEPT !.stage = "answered", !.answer = "cache"]
                        ELSE IF e.routed THEN [e EXCEPT !.stage = "scramjetFetch"]
                        ELSE [e EXCEPT !.stage = "fetch"]]
          ELSE IF outcome = "throws"
             THEN client' = [client EXCEPT !.event = [e EXCEPT !.stage = "answered", !.answer = "500"]]
          ELSE client' = [client EXCEPT !.cache = put, !.event =
                        [e EXCEPT !.stage = "answered",
                                  !.answer = IF e.stage = "scramjetFetch" THEN "scramjet" ELSE "network"]]
    /\ UNCHANGED <<codec, reqs, outbound, page>>

\* C25: the flag is set only by the handler of an init_complete that no invalidate_config followed
C25_NoStaleConfigLoad ==
    [][client.part = "sw" =>
         \A m \in DOMAIN client.received :
            (/\ client.received[m].stage = "loadConfig"
             /\ client'.received[m].stage # "loadConfig"
             /\ client'.scramjetConfigLoaded)
            => \A k \in DOMAIN client.received :
                  k > m => client.received[k].type # "invalidate_config"]_vars

\* C26: scramjet.fetch is called only with the instance made and its config loaded,
\* and without them a proxied or cross-origin URL is answered 503, every other from the network
C26_NoRoutingBeforeReady ==
    [][client.part = "sw" =>
         /\ (client'.event.stage = "scramjetFetch" /\ client.event.stage # "scramjetFetch")
               => (client.scramjet.made /\ client.scramjetConfigLoaded)
         /\ (client'.fetches # client.fetches /\ ~(client.scramjet.made /\ client.scramjetConfigLoaded))
               => /\ client'.event.stage = "answered"
                  /\ client'.event.answer = 
                        IF \/ client'.event.url \in { <<104, 116, 116, 112, 115, 58, 47, 47, 97, 46, 105, 111, 47, 115, 101, 114, 118, 105, 99, 101, 47, 104, 116, 116, 112, 58, 98, 46, 105, 111, 47>>, <<104, 116, 116, 112, 115, 58, 47, 47, 97, 46, 105, 111, 47, 115, 101, 114, 118, 105, 99, 101, 47, 104, 116, 116, 112, 58, 98, 46, 105, 111, 47, 120, 46, 106, 115>> }
                           \/ client'.event.url \in { <<104, 116, 116, 112, 115, 58, 47, 47, 98, 46, 105, 111, 47, 112>>, <<104, 116, 116, 112, 115, 58, 47, 47, 97, 46, 105, 111, 46, 98, 46, 105, 111, 47, 112>> }
                        THEN "503" ELSE "network"]_vars

-----------------------------------------------------------------------------
(***************************************************************************)
(* ErrorHandler's initialization timeout (src/unnamed/part_005) and the    *)
(* ProxyService initialization that starts and stops it                    *)
(* (src/unnamed/part_004).  Time is in milliseconds and passes in steps of *)
(* a third of INIT_TIMEOUT; a timer fires when its time has come.          *)
(* client.timers are the pending setTimeout calls, client.initTimer the    *)
(* handle kept by the ErrorHandler (0 before the first call and for null). *)
(***************************************************************************)
INIT_TIMEOUT == 15000

MaxTicks == 7

\* the page after the ErrorHandler script ran: no timer yet, the load event and the
\* initialization still to come
TimeoutStart(inIframe) ==
    [part |-> "timeout", now |-> 0, initTimer |-> 0, timers |-> {}, handles |-> 0,
     loadFired |-> FALSE, isInIframe |-> inIframe, init |-> "idle", stoppedAt |-> -1,
     emergencyUIShown |-> FALSE, shownBy |-> ""]

\* startInitTimeout, called by the load event (caller "load") and by the initialization
\* code (caller "init", which in a Scramjet-created iframe returns before the call)
startInitTimeout(caller) ==
    /\ client.part = "timeout"
    /\ IF caller = "load" THEN ~client.loadFired ELSE client.init = "idle"
    /\ client' = [client EXCEPT
          !.loadFired = IF caller = "load" THEN TRUE ELSE @,
          !.init = IF caller = "load" THEN @ ELSE IF client.isInIframe THEN "skipped" ELSE "running",
          !.handles = IF caller = "init" /\ client.isInIframe THEN @ ELSE @ + 1,
          !.timers = IF caller = "init" /\ client.isInIframe THEN @
                     ELSE @ \cup {[id |-> client.handles + 1, due |-> client.now + INIT_TIMEOUT]},
          !.initTimer = IF caller = "init" /\ client.isInIframe THEN @ ELSE client.handles + 1]
    /\ UNCHANGED <<codec, reqs, outbound, page>>

\* the initialization succeeded: window.ErrorHandler.stopTimeout()
stopInitTimeout ==
    /\ client.part = "timeout"
    /\ client.init = "running"
    /\ client' = [client EXCEPT
          !.init = "succeeded", !.stoppedAt = client.now,
          !.timers = IF client.initTimer # 0 THEN {t \in @ : t.id # client.initTimer} ELSE @,
          !.initTimer = 0]
    /\ UNCHANGED <<codec, reqs, outbound, page>>

\* the initialization failed: window.ErrorHandler.show(...)
initFailed ==
    /\ client.part = "timeout"
    /\ client.init = "running"
    /\ client' = [client EXCEPT
          !.init = "failed", !.emergencyUIShown = TRUE,
          !.shownBy = IF client.emergencyUIShown THEN @ ELSE "failure"]
    /\ UNCHANGED <<codec, reqs, outbound, page>>

\* the callback of a setTimeout of startInitTimeout: showEmergencyUI(...)
initTimerFires ==
    /\ client.part = "timeout"
    /\ \E t \in client.timers :
          /\ t.due <= client.now
          /\ client' = [client EXCEPT
                !.timers = @ \ {t}, !.emergencyUIShown = TRUE,
                !.shownBy = IF client.emergencyUIShown THEN @ ELSE "timeout"]
    /\ UNCHANGED <<codec, reqs, outbound, page>>

\* time passes, no further than the next timer to fire
timePasses ==
    /\ client.part = "timeout"
    /\ client.now < MaxTicks * (INIT_TIMEOUT \div 3)
    /\ \A t \in client.timers : t.due > client.now
    /\ client' = [client EXCEPT !.now = @ + INIT_TIMEOUT \div 3]
    /\ UNCHANGED <<codec, reqs, outbound, page>>

\* C27: after an initialization that succeeded and called stopTimeout before INIT_TIMEOUT
\* had passed, the timeout never shows the emergency UI
C27_NoTimeoutAfterSuccess ==
    (client.part = "timeout" /\ client.init = "succeeded" /\ client.stoppedAt < INIT_TIMEOUT)
        => client.shownBy # "timeout"

-----------------------------------------------------------------------------
(***************************************************************************)
(* The tab list of the Browser (src/js/browser.js, the class of lines      *)
(* 579-2341).  A tab is [id, url, sleeping]; activeTabId is 0 for null.    *)
(* Whether a tab has been inactive for longer than the threshold depends   *)
(* on Date.now() and on the setting of the slider: an inactivity check     *)
(* takes the set of the tabs for which it has.                             *)
(***************************************************************************)
maxTabs == 10

MaxTabId == 10

MaxSites == 1

\* new Browser(): this.tabs = [], this.activeTabId = null, this.nextTabId = 1
TabsStart == [part |-> "tabs", tabs |-> <<>>, activeTabId |-> 0, nextTabId |-> 1]

\* a wake-up that leaves the tab as it is
wakeUpTabNot(tab) == tab

\* wakeUpTab(tab)
wakeUpTab(tab) == IF ~tab.sleeping THEN tab ELSE [tab EXCEPT !.sleeping = FALSE]

\* switchTab(id), on the browser b
switchTab(b, id) ==
    IF b.activeTabId = id THEN b
    ELSE IF \E i \in DOMAIN b.tabs : b.tabs[i].id = id
         THEN [b EXCEPT !.activeTabId = id,
                        !.tabs = [i \in DOMAIN b.tabs |->
                                    IF b.tabs[i].id = id THEN wakeUpTab(b.tabs[i]) ELSE b.tabs[i]]]
         ELSE b

\* createTab(url)
createTab(url) ==
    /\ client.part = "tabs"
    /\ client.nextTabId <= MaxTabId \/ Len(client.tabs) >= maxTabs
    /\ url = "browser://home"
          \/ Cardinality({i \in DOMAIN client.tabs : client.tabs[i].url # "browser://home"}) < MaxSites
    /\ client' =
         IF Len(client.tabs) >= maxTabs THEN client
         ELSE switchTab([client EXCEPT
                           !.nextTabId = @ + 1,
                           !.tabs = Append(@, [id |-> client.nextTabId, url |-> url, sleeping |-> FALSE])],
                        client.nextTabId)
    /\ UNCHANGED <<codec, reqs, outbound, page>>

\* a click on the tab with this id: this.switchTab(id)
tabClicked(id) ==
    /\ client.part = "tabs"
    /\ client' = switchTab(client, id)
    /\ UNCHANGED <<codec, reqs, outbound, page>>

\* closeTab(id)
closeTab(id) ==
    /\ client.part = "tabs"
    /\ client' =
         IF Len(client.tabs) <= 1 THEN client
         ELSE IF ~\E i \in DOMAIN client.tabs : client.tabs[i].id = id THEN client
         ELSE LET tabIndex == CHOOSE i \in DOMAIN client.tabs : client.tabs[i].id = id
                  spliced == [client EXCEPT !.tabs = SubSeq(@, 1, tabIndex - 1) \o SubSeq(@, tabIndex + 1, Len(@))]
                  \* this.tabs[tabIndex] || this.tabs[tabIndex - 1], 1-based here
                  nextTab(tabs) == IF tabIndex <= Len(tabs) THEN tabs[tabIndex] ELSE tabs[tabIndex - 1]
              IN IF client.activeTabId = id
                    THEN switchTab(spliced, nextTab(spliced.tabs).id)
                    ELSE spliced
    /\ UNCHANGED <<codec, reqs, outbound, page>>

\* checkTabInactivity(), with the checkbox of the setting and the set of the ids of
\* the tabs with now - tab.lastActive > threshold; putTabToSleep(tab)
checkTabInactivity(checked, inactive) ==
    /\ client.part = "tabs"
    /\ client' =
         IF ~checked THEN client
         ELSE [client EXCEPT !.tabs = [i \in DOMAIN @ |->
                 IF @[i].id = client.activeTabId \/ @[i].sleeping \/ @[i].url = "browser://home"
                    THEN @[i]
                 ELSE IF @[i].id \in inactive THEN [@[i] EXCEPT !.sleeping = TRUE]
                 ELSE @[i]]]
    /\ UNCHANGED <<codec, reqs, outbound, page>>

\* C28: once the first tab exists, the list has 1 to maxTabs tabs with distinct ids,
\* activeTabId is the id of one of them, and that tab is not sleeping
C28_TabListValid ==
    (client.part = "tabs" /\ client.nextTabId > 1) =>
        /\ Len(client.tabs) \in 1..maxTabs
        /\ \A i, j \in DOMAIN client.tabs : client.tabs[i].id = client.tabs[j].id => i = j
        /\ \E i \in DOMAIN client.tabs :
              client.tabs[i].id = client.activeTabId /\ ~client.tabs[i].sleeping

\* the list is full and a tab in it sleeps
C28_Witness ==
    /\ client.part = "tabs"
    /\ Len(client.tabs) = maxTabs
    /\ \E i \in DOMAIN client.tabs : client.tabs[i].sleeping

-----------------------------------------------------------------------------
(***************************************************************************)
(* WispHealthChecker.testConnection (src/js/wisp-health.js).  The checks   *)
(* run one after another; client.resolved is the flag of the running       *)
(* check, client.ws the state of its WebSocket, client.timer whether its   *)
(* setTimeout is pending, client.resolveCalls the number of calls of       *)
(* resolve it made and client.success the success value of the result.     *)
(* isHealthy is "null", "true" or "false".                                 *)
(***************************************************************************)
MaxChecks == 2

\* window.WispHealthChecker = { lastCheckTime: null, isHealthy: null, ... }
HealthStart ==
    [part |-> "health", lastCheckTime |-> "null", isHealthy |-> "null", checks |-> 0,
     pc |-> "idle", resolved |-> FALSE, ws |-> "none", timer |-> FALSE,
     resolveCalls |-> 0, success |-> "none", cause |-> ""]

\* testConnection(wispUrl, timeout) up to the return of the promise
testConnection ==
    /\ client.part = "health"
    /\ client.pc \in {"idle", "resolved"}
    /\ client.checks < MaxChecks
    /\ client' = [client EXCEPT !.checks = @ + 1, !.pc = "pending", !.resolved = FALSE,
                                !.ws = "connecting", !.timer = TRUE,
                                !.resolveCalls = 0, !.success = "none", !.cause = ""]
    /\ UNCHANGED <<codec, reqs, outbound, page>>

\* the callback of setTimeout(..., timeout)
healthTimerFires ==
    /\ client.part = "health"
    /\ client.timer
    /\ client' =
         IF client.resolved THEN [client EXCEPT !.timer = FALSE]
         ELSE [client EXCEPT !.timer = FALSE, !.resolved = TRUE,
                             !.ws = IF @ \in {"connecting", "open"} THEN "closing" ELSE @,
                             !.pc = "resolved", !.resolveCalls = @ + 1,
                             !.success = "false", !.cause = "timeout"]
    /\ UNCHANGED <<codec, reqs, outbound, page>>

\* ws.onopen, ws.onerror and ws.onclose
wsEvent(type) ==
    /\ client.part = "health"
    /\ IF type = "open" THEN client.ws = "connecting"
       ELSE IF type = "error" THEN client.ws \in {"connecting", "open", "closing"}
       ELSE client.ws \in {"connecting", "open", "closing", "failed"}
    /\ LET ws == IF type = "open" THEN "open" ELSE IF type = "error" THEN "failed" ELSE "closed"
       IN client' =
            IF client.resolved THEN [client EXCEPT !.ws = ws]
            ELSE IF type = "open"
               THEN [client EXCEPT !.resolved = TRUE, !.timer = FALSE, !.ws = "closing",
                                   !.lastCheckTime = "now", !.isHealthy = "true",
                                   !.pc = "resolved", !.resolveCalls = @ + 1,
                                   !.success = "true", !.cause = type]
            ELSE [client EXCEPT !.resolved = TRUE, !.timer = FALSE, !.ws = ws,
                                !.isHealthy = "false",
                                !.pc = "resolved", !.resolveCalls = @ + 1,
                                !.success = "false", !.cause = type]
    /\ UNCHANGED <<codec, reqs, outbound, page>>

\* C29: a check calls resolve once, and once it has resolved isHealthy is the success
\* value of its result
C29_ResolvesOnceAndRecords ==
    client.part = "health" =>
        /\ client.resolveCalls <= 1
        /\ client.pc = "resolved" => (client.resolveCalls = 1 /\ client.isHealthy = client.success)

-----------------------------------------------------------------------------
(***************************************************************************)
(* WispEvasion.connectWithRetry (src/js/wisp-evasion.js).  The k-th call   *)
(* of createConnectionFn resolves with result k or rejects with error k;   *)
(* client.outcomes are the outcomes of the calls made and client.waits the *)
(* delays waited, in order.  A returned value of 0 is undefined.           *)
(***************************************************************************)
MaxRetriesInput == 3

\* before the call of connectWithRetry
RetryStart ==
    [part |-> "retry", pc |-> "idle", maxRetries |-> 0, baseDelay |-> 0, attempt |-> 0,
     outcomes |-> <<>>, waits |-> <<>>, returned |-> 0, thrown |-> 0]

\* a delay that doubles once too often
delayDoubledAgain(baseDelay, attempt) == baseDelay * 2^attempt

\* const delay = baseDelay * Math.pow(2, attempt - 1)
delay(baseDelay, attempt) == baseDelay * 2^(attempt - 1)

\* connectWithRetry(createConnectionFn, maxRetries, baseDelay) up to its first await
connectWithRetry(maxRetries, baseDelay) ==
    /\ client.part = "retry"
    /\ client.pc = "idle"
    /\ client' = [client EXCEPT !.maxRetries = maxRetries, !.baseDelay = baseDelay, !.attempt = 1,
                                !.pc = IF 1 <= maxRetries THEN "calling" ELSE "returned"]
    /\ UNCHANGED <<codec, reqs, outbound, page>>

\* await createConnectionFn() settled
connectionSettled(ok) ==
    /\ client.part = "retry"
    /\ client.pc = "calling"
    /\ client' =
         IF ok THEN [client EXCEPT !.outcomes = Append(@, "ok"), !.pc = "returned",
                                   !.returned = client.attempt]
         ELSE IF client.attempt = client.maxRetries
            THEN [client EXCEPT !.outcomes = Append(@, "error"), !.pc = "thrown",
                                !.thrown = client.attempt]
         ELSE [client EXCEPT !.outcomes = Append(@, "error"), !.pc = "waiting",
                             !.waits = Append(@, delay(client.baseDelay, client.attempt))]
    /\ UNCHANGED <<codec, reqs, outbound, page>>

\* await new Promise(resolve => setTimeout(resolve, delay)) settled, attempt++
delayElapsed ==
    /\ client.part = "retry"
    /\ client.pc = "waiting"
    /\ client' = [client EXCEPT !.attempt = @ + 1,
                                !.pc = IF client.attempt + 1 <= client.maxRetries
                                          THEN "calling" ELSE "returned"]
    /\ UNCHANGED <<codec, reqs, outbound, page>>

\* C30: at most maxRetries calls; the result of the first call that succeeds is returned
\* and no call follows it; the wait after the k-th failure is baseDelay * 2^(k-1); after
\* maxRetries failures the error of the last call is thrown and no wait follows it
C30_RetryWithBackoff ==
    client.part = "retry" =>
        /\ Len(client.outcomes) <= client.maxRetries
        /\ \A k \in DOMAIN client.outcomes :
              client.outcomes[k] = "ok" => (k = Len(client.outcomes) /\ client.pc = "returned" /\ client.returned = k)
        /\ (client.pc = "returned" /\ client.maxRetries >= 1) =>
              client.outcomes[Len(client.outcomes)] = "ok"
        /\ \A k \in DOMAIN client.waits :
              /\ client.outcomes[k] = "error"
              /\ client.waits[k] = CASE k = 1 -> client.baseDelay
                                     [] k = 2 -> 2 * client.baseDelay
                                     [] k = 3 -> 4 * client.baseDelay
                                     [] OTHER -> 8 * client.baseDelay
        /\ client.pc \in {"calling", "returned"} => Len(client.waits) = client.attempt - 1
        /\ client.pc = "thrown" =>
              /\ Len(client.outcomes) = client.maxRetries
              /\ \A k \in DOMAIN client.outcomes : client.outcomes[k] = "error"
              /\ client.thrown = client.maxRetries
              /\ Len(client.waits) = client.maxRetries - 1

\* three attempts failed: two waits, then the third error is thrown
C30_Witness ==
    /\ client.part = "retry"
    /\ client.pc = "thrown"
    /\ client.maxRetries = 3
    /\ client.waits = <<1000, 2000>>

-----------------------------------------------------------------------------
(***************************************************************************)
(* The browser components, one at a time: Init chooses the component.      *)
(***************************************************************************)
ClientInit ==
    /\ client \in {SwStart(b) : b \in BOOLEAN} \cup {TimeoutStart(f) : f \in BOOLEAN}
                 \cup {TabsStart, HealthStart, RetryStart}
    /\ codec = CodecOff
    /\ reqs = <<>>
    /\ outbound = {}
    /\ page = PageOff

ClientNext ==
    \/ \E c \in {"", "A"}, t \in {"skipWaiting", "init_complete", "invalidate_config"} :
          onMessage([type |-> t, config |-> c])
    \/ \E m \in 1..MaxMessages, loaded \in BOOLEAN : ensureConfigLoaded(m, loaded)
    \/ \E m \in 1..MaxMessages, ok \in BOOLEAN : wasmLoaded(m, ok)
    \/ \E url \in SwUrls : handleRequest(url)
    \/ \E outcome \in {"ok", "notOk", "throws"} : handleRequestResumed(outcome)
    \/ \E caller \in {"load", "init"} : startInitTimeout(caller)
    \/ stopInitTimeout
    \/ initFailed
    \/ initTimerFires
    \/ timePasses
    \/ \E url \in {"browser://home", "https://a.io/"} : createTab(url)
    \/ \E id \in 1..MaxTabId : tabClicked(id)
    \/ \E id \in 1..MaxTabId : closeTab(id)
    \/ \E checked \in BOOLEAN, inactive \in {{}, 1..MaxTabId} : checkTabInactivity(checked, inactive)
    \/ testConnection
    \/ healthTimerFires
    \/ \E type \in {"open", "error", "close"} : wsEvent(type)
    \/ \E maxRetries \in 0..MaxRetriesInput, baseDelay \in {250, 1000} :
          connectWithRetry(maxRetries, baseDelay)
    \/ \E ok \in BOOLEAN : connectionSettled(ok)
    \/ delayElapsed

ClientSpec == ClientInit /\ [][ClientNext]_vars

====
